---- MODULE Spec2Model ----
(***************************************************************************)
(* Model of the caching engine of novelCode:                               *)
(*   - EnhancedLRUCache   (src/vs/base/common/enhancedCache.ts)            *)
(*   - MemoCache          (src/vs/base/common/enhancedCache.ts)            *)
(*   - CachedFileSystem   (src/vs/base/node/cachedFileSystem.ts)           *)
(*   - AsyncQueue         (src/vs/base/common/performance/optimization.ts) *)
(* Time is counted in milliseconds, as Date.now() does.                    *)
(***************************************************************************)
EXTENDS Integers, Sequences, FiniteSets, TLC

(***************************************************************************)
(* Bounds of the model                                                     *)
(***************************************************************************)
\* largest maxSize option a cache of specification Spec is constructed with
MaxCap == 2
\* last value of the clock Date.now()
MaxTime == 2
\* number of public operations called on the cache of specification Spec
MaxOps == 4
\* number of calls of the memoize() wrapper and of MemoCache.clear()
MaxMemoCalls == 3
\* number of calls of readFileWithCache and statWithCache
MaxReads == 3
\* number of external changes of a file
MaxVersion == 1
MaxConcurrency == 2
MaxItems == 4
MaxCalls == 3
MaxObjects == 3
MaxPoolOps == 6
\* the calls made to a RateLimiter
MaxChecks == 5
\* the largest maxRetries passed to withRetry
MaxRetries == 3

(***************************************************************************)
(* Values of the program                                                   *)
(***************************************************************************)
\* the JavaScript value undefined
Undefined == "undefined"
\* keys the callers use
Keys == {"a", "b", "c"}
\* values the callers store; undefined is a value of V = any
Values == {"v1", Undefined}
\* the keys and the value the callers of specification Spec use
LruKeys == {"a", "b", "c"}
LruValues == {"v1"}
\* the keys the callers of specification SpecTtl use
TtlKeys == {"a", "b"}
\* ttl arguments of set(key, value, ttl?): 0 stands for an omitted (or zero) ttl
TtlArgs == {0, 1}
\* defaultTtl options of the constructor: 0 stands for an omitted option
DefaultTtlOptions == {0}

\* the maxSize and defaultTtl options of specification SpecConfig, and the ttl
\* arguments of its set(): 0 stands for an omitted (or zero) one
ConfigSizes == {-1, 0, 1}
ConfigTtls == {-1, 0, 1}
ConfigKeys == {"a", "b"}

\* the cleanupInterval options of specification SpecTimer: 0 stands for an
\* omitted (or zero) one
TimerIntervals == {0, 1}

\* the arguments the memoized functions are called with; the key of a call
\* is JSON.stringify(args), the same for every function
Args == {"x"}
\* what a caller gets when the function memoize() wraps throws
Thrown == "thrown"
\* the outcomes of the function memoize() wraps: a result or an exception
SyncResults == {"f", Undefined, Thrown}
\* the ttl arguments of memoize(): 0 stands for an omitted ttl
MemoTtls == {0, 1}
\* the values the function memoizeAsync() wraps resolves with
AsyncResults == {"g", Undefined}
\* the callers of the memoizeAsync() wrapper, each calling once
Callers == {"c1", "c2"}
\* what a caller gets when the promise it awaits rejects
Rejected == "rejected"

\* the paths the callers of CachedFileSystem use
Paths == {[stem |-> "app", ext |-> ".json"], [stem |-> "notes", ext |-> ".txt"]}
\* the path the callers of specification SpecFs use
FsPaths == {[stem |-> "app", ext |-> ".json"]}
\* the tasks awaiting readFileWithCache or statWithCache
Readers == {"r1", "r2"}
\* the content of a file (and its fs.Stats) after v external changes
Content == <<"v0", "v1", "v2">>
\* the error fs.promises.readFile and fs.promises.stat reject with
AccessorError == "ENOENT"
\* shouldCache: the extensions and path patterns of cacheable files
CacheableExtensions == {".json", ".yml", ".yaml", ".xml", ".properties", ".config"}
CacheablePaths == {"settings", "config", "package.json", "tsconfig", ".vscode"}

\* fileCache: maxSize: 100, ttl: 5 * 60 * 1000
FILE_CACHE_MAX_SIZE == 100
FILE_CACHE_TTL == 300000
\* statCache: maxSize: 500, ttl: 2 * 60 * 1000
STAT_CACHE_MAX_SIZE == 500
STAT_CACHE_TTL == 120000
\* new EnhancedLRUCache<string, any>({ maxSize: 5000 })
MEMO_MAX_SIZE == 5000
\* options.maxSize || 1000
DEFAULT_MAX_SIZE == 1000
\* options.defaultTtl || 300000
DEFAULT_TTL == 300000
\* options.cleanupInterval || 60000
DEFAULT_CLEANUP_INTERVAL == 60000

(***************************************************************************)
(* EnhancedLRUCache: the Map and the operations on it                      *)
(***************************************************************************)
\* a || b on numbers: the right operand when the left one is falsy (0, undefined)
OrElse(a, b) == IF a = 0 THEN b ELSE a

\* constructor(options): an empty Map and zeroed metrics
NewCache(options) ==
    [ entries    |-> <<>>,
      maxSize    |-> OrElse(options.maxSize, DEFAULT_MAX_SIZE),
      defaultTtl |-> OrElse(options.defaultTtl, DEFAULT_TTL),
      hits       |-> 0,
      misses     |-> 0,
      evictions  |-> 0 ]

\* the keys of the Map, in iteration (insertion) order
KeySeq(entries) == [i \in 1..Len(entries) |-> entries[i].key]

\* the keys of the Map
KeySet(entries) == {entries[i].key : i \in 1..Len(entries)}

\* Map.has
MapHas(entries, key) == key \in KeySet(entries)

\* Map.get of a key the Map has
MapGet(entries, key) ==
    entries[CHOOSE i \in 1..Len(entries) : entries[i].key = key]

\* Map.delete: the other keys keep their order
MapDelete(entries, key) == SelectSeq(entries, LAMBDA e : e.key # key)

\* Map.set: a new key goes to the end, a present key keeps its place
MapSet(entries, key, entry) ==
    IF MapHas(entries, key)
    THEN [i \in 1..Len(entries) |->
            IF entries[i].key = key THEN entry ELSE entries[i]]
    ELSE Append(entries, entry)

\* entry.ttl && (now - entry.timestamp) > entry.ttl
IsExpired(entry, now) == entry.ttl # 0 /\ (now - entry.timestamp) > entry.ttl

\* get(key) with the miss on an expired entry left uncounted
CacheGetExpiryUncounted(c, key, now) ==
    IF ~MapHas(c.entries, key)
    THEN [cache |-> [c EXCEPT !.misses = @ + 1], ret |-> Undefined]
    ELSE LET entry == MapGet(c.entries, key) IN
         IF IsExpired(entry, now)
         THEN [cache |-> [c EXCEPT !.entries = MapDelete(@, key)],
               ret   |-> Undefined]
         ELSE [cache |-> [c EXCEPT !.entries =
                              MapSet(MapDelete(@, key), key,
                                     [entry EXCEPT !.accessCount = @ + 1,
                                                   !.lastAccessed = now]),
                                   !.hits = @ + 1],
               ret   |-> entry.value]

\* get(key) without the move to the most recently used end
CacheGetNoTouch(c, key, now) ==
    IF ~MapHas(c.entries, key)
    THEN [cache |-> [c EXCEPT !.misses = @ + 1], ret |-> Undefined]
    ELSE LET entry == MapGet(c.entries, key) IN
         IF IsExpired(entry, now)
         THEN [cache |-> [c EXCEPT !.entries = MapDelete(@, key),
                                   !.misses = @ + 1],
               ret   |-> Undefined]
         ELSE [cache |-> [c EXCEPT !.entries =
                              MapSet(@, key,
                                     [entry EXCEPT !.accessCount = @ + 1,
                                                   !.lastAccessed = now]),
                                   !.hits = @ + 1],
               ret   |-> entry.value]

\* get(key) that keeps an expired entry in the Map
CacheGetKeepsExpired(c, key, now) ==
    IF ~MapHas(c.entries, key)
    THEN [cache |-> [c EXCEPT !.misses = @ + 1], ret |-> Undefined]
    ELSE LET entry == MapGet(c.entries, key) IN
         IF IsExpired(entry, now)
         THEN [cache |-> [c EXCEPT !.misses = @ + 1], ret |-> Undefined]
         ELSE [cache |-> [c EXCEPT !.entries =
                              MapSet(MapDelete(@, key), key,
                                     [entry EXCEPT !.accessCount = @ + 1,
                                                   !.lastAccessed = now]),
                                   !.hits = @ + 1],
               ret   |-> entry.value]

\* get(key) that restarts the entry's ttl on a hit
CacheGetRefreshes(c, key, now) ==
    IF ~MapHas(c.entries, key)
    THEN [cache |-> [c EXCEPT !.misses = @ + 1], ret |-> Undefined]
    ELSE LET entry == MapGet(c.entries, key) IN
         IF IsExpired(entry, now)
         THEN [cache |-> [c EXCEPT !.entries = MapDelete(@, key),
                                   !.misses = @ + 1],
               ret   |-> Undefined]
         ELSE [cache |-> [c EXCEPT !.entries =
                              MapSet(MapDelete(@, key), key,
                                     [entry EXCEPT !.accessCount = @ + 1,
                                                   !.timestamp = now,
                                                   !.lastAccessed = now]),
                                   !.hits = @ + 1],
               ret   |-> entry.value]

\* get(key) that leaves the entry's accessCount as it is
CacheGetUncounted(c, key, now) ==
    IF ~MapHas(c.entries, key)
    THEN [cache |-> [c EXCEPT !.misses = @ + 1], ret |-> Undefined]
    ELSE LET entry == MapGet(c.entries, key) IN
         IF IsExpired(entry, now)
         THEN [cache |-> [c EXCEPT !.entries = MapDelete(@, key),
                                   !.misses = @ + 1],
               ret   |-> Undefined]
         ELSE [cache |-> [c EXCEPT !.entries =
                              MapSet(MapDelete(@, key), key,
                                     [entry EXCEPT !.lastAccessed = now]),
                                   !.hits = @ + 1],
               ret   |-> entry.value]

\* get(key): the new cache and the value returned
CacheGet(c, key, now) ==
    IF ~MapHas(c.entries, key)
    THEN [cache |-> [c EXCEPT !.misses = @ + 1], ret |-> Undefined]
    ELSE LET entry == MapGet(c.entries, key) IN
         IF IsExpired(entry, now)
         THEN [cache |-> [c EXCEPT !.entries = MapDelete(@, key),
                                   !.misses = @ + 1],
               ret   |-> Undefined]
         ELSE [cache |-> [c EXCEPT !.entries =
                              MapSet(MapDelete(@, key), key,
                                     [entry EXCEPT !.accessCount = @ + 1,
                                                   !.lastAccessed = now]),
                                   !.hits = @ + 1],
               ret   |-> entry.value]

\* the entry set(key, value, ttl) builds
NewEntry(c, key, value, ttl, now) ==
    [ key          |-> key,
      value        |-> value,
      timestamp    |-> now,
      ttl          |-> OrElse(ttl, c.defaultTtl),
      accessCount  |-> 0,
      lastAccessed |-> now ]

\* this.cache.delete(this.cache.keys().next().value)
DeleteFirst(entries) == IF entries = <<>> THEN entries ELSE Tail(entries)

\* set(key, value, ttl) that never makes room
CacheSetNoEviction(c, key, value, ttl, now) ==
    [c EXCEPT !.entries =
        MapSet(MapDelete(@, key), key, NewEntry(c, key, value, ttl, now))]

\* set(key, value, ttl) that counts a replacement as an eviction
CacheSetCountsReplacement(c, key, value, ttl, now) ==
    IF MapHas(c.entries, key)
    THEN [c EXCEPT !.entries =
             MapSet(MapDelete(@, key), key, NewEntry(c, key, value, ttl, now)),
                   !.evictions = @ + 1]
    ELSE IF Len(c.entries) >= c.maxSize
    THEN [c EXCEPT !.entries =
             MapSet(DeleteFirst(@), key, NewEntry(c, key, value, ttl, now)),
                   !.evictions = @ + 1]
    ELSE [c EXCEPT !.entries =
             MapSet(@, key, NewEntry(c, key, value, ttl, now))]

\* set(key, value, ttl) that makes room by deleting the two first keys
CacheSetEvictsTwo(c, key, value, ttl, now) ==
    IF MapHas(c.entries, key)
    THEN [c EXCEPT !.entries =
             MapSet(MapDelete(@, key), key, NewEntry(c, key, value, ttl, now))]
    ELSE IF Len(c.entries) >= c.maxSize
    THEN [c EXCEPT !.entries =
             MapSet(DeleteFirst(DeleteFirst(@)), key,
                    NewEntry(c, key, value, ttl, now)),
                   !.evictions = @ + 1]
    ELSE [c EXCEPT !.entries =
             MapSet(@, key, NewEntry(c, key, value, ttl, now))]

\* set(key, value, ttl) that writes a stored key in place
CacheSetInPlace(c, key, value, ttl, now) ==
    IF MapHas(c.entries, key)
    THEN [c EXCEPT !.entries =
             MapSet(@, key, NewEntry(c, key, value, ttl, now))]
    ELSE IF Len(c.entries) >= c.maxSize
    THEN [c EXCEPT !.entries =
             MapSet(DeleteFirst(@), key, NewEntry(c, key, value, ttl, now)),
                   !.evictions = @ + 1]
    ELSE [c EXCEPT !.entries =
             MapSet(@, key, NewEntry(c, key, value, ttl, now))]

\* set(key, value, ttl) that makes room by deleting an expired entry when
\* there is one
CacheSetEvictsExpired(c, key, value, ttl, now) ==
    IF MapHas(c.entries, key)
    THEN [c EXCEPT !.entries =
             MapSet(MapDelete(@, key), key, NewEntry(c, key, value, ttl, now))]
    ELSE IF Len(c.entries) >= c.maxSize
    THEN LET expired == SelectSeq(c.entries, LAMBDA e : IsExpired(e, now))
             room    == IF expired = <<>>
                        THEN DeleteFirst(c.entries)
                        ELSE MapDelete(c.entries, Head(expired).key)
         IN [c EXCEPT !.entries =
                MapSet(room, key, NewEntry(c, key, value, ttl, now)),
                      !.evictions = @ + 1]
    ELSE [c EXCEPT !.entries =
             MapSet(@, key, NewEntry(c, key, value, ttl, now))]

\* set(key, value, ttl): the new cache
CacheSet(c, key, value, ttl, now) ==
    IF MapHas(c.entries, key)
    THEN [c EXCEPT !.entries =
             MapSet(MapDelete(@, key), key, NewEntry(c, key, value, ttl, now))]
    ELSE IF Len(c.entries) >= c.maxSize
    THEN [c EXCEPT !.entries =
             MapSet(DeleteFirst(@), key, NewEntry(c, key, value, ttl, now)),
                   !.evictions = @ + 1]
    ELSE [c EXCEPT !.entries =
             MapSet(@, key, NewEntry(c, key, value, ttl, now))]

\* has(key): get(key) !== undefined
CacheHas(c, key, now) ==
    LET got == CacheGet(c, key, now) IN
    [cache |-> got.cache, ret |-> got.ret # Undefined]

\* delete(key) that counts the removal as an eviction
CacheDeleteCountsEviction(c, key) ==
    [cache |-> [c EXCEPT !.entries = MapDelete(@, key),
                         !.evictions = IF MapHas(c.entries, key)
                                       THEN @ + 1 ELSE @],
     ret   |-> MapHas(c.entries, key)]

\* delete(key): the new cache and whether the Map had the key
CacheDelete(c, key) ==
    [cache |-> [c EXCEPT !.entries = MapDelete(@, key)],
     ret   |-> MapHas(c.entries, key)]

\* the Map holds an entry of key whose ttl has not run out
HoldsLive(c, key, now) ==
    /\ MapHas(c.entries, key)
    /\ ~IsExpired(MapGet(c.entries, key), now)

\* the timer fields after constructor(options): startCleanupTimer() is called
\* unless options.enableMetrics is false (an omitted option is not false);
\* nextAt is the time of the next callback, counted from the construction at 0
NewTimer(options) ==
    LET interval == OrElse(options.cleanupInterval, DEFAULT_CLEANUP_INTERVAL) IN
    [ cleanupInterval |-> interval,
      armed           |-> options.enableMetrics # FALSE,
      nextAt          |-> interval,
      disposed        |-> FALSE,
      options         |-> options ]

\* clear() that empties the Map and keeps the counters
CacheClearKeepsMetrics(c) == [c EXCEPT !.entries = <<>>]

\* clear()
CacheClear(c) ==
    [c EXCEPT !.entries = <<>>, !.hits = 0, !.misses = 0, !.evictions = 0]

\* a / b as a fraction; the numbers of the program are floating point
Ratio(a, b) == [num |-> a, den |-> b]

\* getMetrics() with the rate of the misses in place of that of the hits
GetMetricsMissRate(c) ==
    LET total == c.hits + c.misses IN
    [ hits      |-> c.hits,
      misses    |-> c.misses,
      hitRate   |-> IF total > 0 THEN Ratio(c.misses, total) ELSE Ratio(0, 1),
      size      |-> Len(c.entries),
      maxSize   |-> c.maxSize,
      evictions |-> c.evictions ]

\* getMetrics()
GetMetrics(c) ==
    LET total == c.hits + c.misses IN
    [ hits      |-> c.hits,
      misses    |-> c.misses,
      hitRate   |-> IF total > 0 THEN Ratio(c.hits, total) ELSE Ratio(0, 1),
      size      |-> Len(c.entries),
      maxSize   |-> c.maxSize,
      evictions |-> c.evictions ]

\* cleanup() that also removes the entries whose age equals their ttl
CacheCleanupAtTtl(c, now) ==
    LET kept == SelectSeq(c.entries, LAMBDA e : now - e.timestamp < e.ttl) IN
    [cache |-> [c EXCEPT !.entries = kept],
     ret   |-> Len(c.entries) - Len(kept)]

\* cleanup(): the new cache and the number of entries removed
CacheCleanup(c, now) ==
    LET kept == SelectSeq(c.entries, LAMBDA e : ~IsExpired(e, now)) IN
    [cache |-> [c EXCEPT !.entries = kept],
     ret   |-> Len(c.entries) - Len(kept)]

(***************************************************************************)
(* State                                                                   *)
(***************************************************************************)
VARIABLES
    lru,        \* an EnhancedLRUCache
    now,        \* Date.now()
    lastOp,     \* the last step: the operation called on lru and what it
                \* returned; for set(), whether the key was stored before;
                \* for clear(), whether there were entries and counts before
    ops,        \* the number of public operations called on lru
    getCalls,   \* the number of calls of lru.get since the last clear()
    useOrder,   \* the stored keys, least recently used (set, or hit) first
    stored,     \* per key, the set() that stored it, while no eviction, delete,
                \* replacement or clear() has removed it
    hitCalls,   \* the number of calls of lru.get since the last clear() that
                \* found an entry that had not expired
    timer       \* cleanupInterval and cleanupTimer of lru, and the options
                \* they come from

VARIABLES
    memo,         \* MemoCache.cache, shared by every memoized function
    syncFn,       \* the pure function memoize() wraps: its result per argument
    syncTtl,      \* the ttl argument of memoize(): 0 stands for an omitted ttl
    memoCalls,    \* the number of calls of MemoCache made so far
    lastCall,     \* the last call of the memoize() wrapper and what it returned
    syncInvoked,  \* per argument, how often the wrapper has invoked syncFn
    window,       \* per argument, the last invocation of syncFn by the wrapper:
                  \* its time and the value the wrapper returned
    pendingCache, \* the pendingCache Map of the memoizeAsync() wrapper:
                  \* per key the promise in flight, 0 for none
    promises,     \* the promises the wrapped async function has returned
    callers       \* the callers of the memoizeAsync() wrapper

VARIABLES
    fileCache,    \* CachedFileSystem.fileCache
    statCache,    \* CachedFileSystem.statCache
    disk,         \* per path, the number of external changes of the file
    readers,      \* the calls of readFileWithCache and statWithCache in progress
    reads,        \* the number of calls of readFileWithCache and statWithCache
    fsLast,       \* the last step of CachedFileSystem
    invalidated,  \* per path, the changes of the file the last
                  \* invalidateCache(path) came after; -1 before the first one
    populated,    \* per path, whether readFileWithCache has stored its content
    awaitsRead    \* per path, whether invalidateCache(path) was called after
                  \* the content was stored and no readFileWithCache(path, false)
                  \* has been called since

VARIABLES
    asyncQueue    \* an AsyncQueue: its queue, concurrency and running fields,
                  \* and the state of every task given to add()

VARIABLES
    batcher       \* a BatchProcessor: its items, options and timeout fields,
                  \* the timers it has armed and the calls of processFn

VARIABLES
    debounced     \* the function debounce() returned: its timeout variable, the
                  \* timers it has armed, the calls made and the executions of func

VARIABLES
    throttled     \* the function throttle() returned: its inThrottle variable, the
                  \* timers it has armed and the calls made

VARIABLES
    plainLru      \* a plain LRUCache: its Map and maxSize, the last operation called on it,
                  \* the number of operations and the keys in the order of their last use

VARIABLES
    pool          \* an ObjectPool: its pool array and maxSize, the objects createFn has
                  \* made, the last operation and when each object was last pooled

VARIABLES
    limiter       \* the RateLimiter of securityService.ts and the record of the calls
                  \* made to it

VARIABLES
    retry         \* one call of ErrorUtils.withRetry of result.ts: its closure, its timer
                  \* and its promise

toolVars == <<batcher, debounced, throttled, plainLru, pool, limiter, retry>>

\* the utilities other than batcher
exceptBatcher == <<debounced, throttled, plainLru, pool, limiter, retry>>

\* the utilities other than debounced
exceptDebounced == <<batcher, throttled, plainLru, pool, limiter, retry>>

\* the utilities other than throttled
exceptThrottled == <<batcher, debounced, plainLru, pool, limiter, retry>>

\* the utilities other than plainLru
exceptPlainLru == <<batcher, debounced, throttled, pool, limiter, retry>>

\* the utilities other than pool
exceptPool == <<batcher, debounced, throttled, plainLru, limiter, retry>>

\* the utilities other than limiter
exceptLimiter == <<batcher, debounced, throttled, plainLru, pool, retry>>

\* the utilities other than retry
exceptRetry == <<batcher, debounced, throttled, plainLru, pool, limiter>>

utilVars == <<asyncQueue, toolVars>>

fsVars == <<fileCache, statCache, disk, readers, reads, fsLast, invalidated,
            populated, awaitsRead>>

lruVars == <<lru, lastOp, ops, getCalls, useOrder, stored, hitCalls, timer>>

memoVars == <<memo, syncFn, syncTtl, memoCalls, lastCall, syncInvoked, window,
              pendingCache, promises, callers>>

vars == <<now, lruVars, memoVars, fsVars, utilVars>>

\* an argument the memoize() wrapper has not invoked syncFn for
NoWindow == [at |-> -1, ret |-> Undefined]

\* a caller that has not called the memoizeAsync() wrapper
IdleCaller ==
    [pc |-> "idle", arg |-> Undefined, awaiting |-> 0, started |-> 0,
     sawPending |-> 0, ret |-> Undefined]

\* a task that has not called CachedFileSystem
IdleReader ==
    [pc |-> "idle", op |-> "read", path |-> Undefined, force |-> FALSE,
     got |-> Undefined, ret |-> Undefined, after |-> -1]

\* a key no set() stands for
NotStored == [at |-> -1, ttl |-> 0, value |-> Undefined]

\* the keys of s that the Map still holds, in the order of s
Restrict(s, entries) == SelectSeq(s, LAMBDA k : MapHas(entries, k))

\* s with key moved (or added) to its end
Touch(s, key) == Append(SelectSeq(s, LAMBDA k : k # key), key)

(***************************************************************************)
(* Specification Spec: one EnhancedLRUCache and its callers                *)
(***************************************************************************)
\* no call of MemoCache has been made
MemoIdle ==
    /\ memo = NewCache([maxSize |-> MEMO_MAX_SIZE, defaultTtl |-> 0])
    /\ syncFn = [x \in Args |-> Undefined]
    /\ syncTtl = 0
    /\ memoCalls = 0
    /\ lastCall = [op |-> "new"]
    /\ syncInvoked = [x \in Args |-> 0]
    /\ window = [x \in Args |-> NoWindow]
    /\ pendingCache = [x \in Args |-> 0]
    /\ promises = <<>>
    /\ callers = [c \in Callers |-> IdleCaller]

\* the CachedFileSystem singleton after its constructor
FsInit ==
    /\ fileCache = NewCache([maxSize |-> FILE_CACHE_MAX_SIZE,
                             defaultTtl |-> FILE_CACHE_TTL])
    /\ statCache = NewCache([maxSize |-> STAT_CACHE_MAX_SIZE,
                             defaultTtl |-> STAT_CACHE_TTL])
    /\ disk = [p \in Paths |-> 0]
    /\ readers = [r \in Readers |-> IdleReader]
    /\ reads = 0
    /\ fsLast = [op |-> "new", path |-> Undefined]
    /\ invalidated = [p \in Paths |-> -1]
    /\ populated = [p \in Paths |-> FALSE]
    /\ awaitsRead = [p \in Paths |-> FALSE]

\* a cache has been constructed with a maxSize of at least 1
LruInit ==
    /\ \E m \in 1..MaxCap, d \in DefaultTtlOptions :
          lru = NewCache([maxSize |-> m, defaultTtl |-> d])
    /\ now = 0
    /\ lastOp = [op |-> "new", key |-> Undefined]
    /\ ops = 0
    /\ getCalls = 0
    /\ useOrder = <<>>
    /\ stored = [k \in Keys |-> NotStored]
    /\ hitCalls = 0
    /\ timer = NewTimer([cleanupInterval |-> 0, enableMetrics |-> TRUE])

\* a task that has not been given to AsyncQueue.add
NewTask == "new"

\* the tasks given to AsyncQueue.add
QueueTasks == {"t1", "t2", "t3", "t4"}

\* the promise add() returned has not settled
PendingPromise == "pending"

\* new AsyncQueue(concurrency); added and started are the orders in which
\* add() was called with the tasks and in which process() called them,
\* outcome is how each task's own promise settled and promise how the
\* promise that add() returned did
NewQueue(concurrency) ==
    [ queue       |-> <<>>,
      concurrency |-> concurrency,
      running     |-> 0,
      tasks       |-> [t \in QueueTasks |-> NewTask],
      added       |-> <<>>,
      started     |-> <<>>,
      outcome     |-> [t \in QueueTasks |-> PendingPromise],
      promise     |-> [t \in QueueTasks |-> PendingPromise] ]

\* new BatchProcessor(processFn, maxBatchSize, maxWaitTime); timers are the
\* setTimeout timers that are armed, added counts the calls of add() and
\* processed lists the calls of processFn
NewBatchProcessor(maxBatchSize, maxWaitTime) ==
    [ items        |-> <<>>,
      maxBatchSize |-> maxBatchSize,
      maxWaitTime  |-> maxWaitTime,
      timeout      |-> 0,
      timers       |-> {},
      nextTimer    |-> 1,
      added        |-> 0,
      processed    |-> <<>> ]

\* debounce(func, wait) without the immediate flag; timers are the setTimeout
\* timers that are armed, each with the arguments its callback will pass,
\* calls lists the calls of the returned function and executions those of func
NewDebounced(wait) ==
    [ wait       |-> wait,
      timeout    |-> 0,
      timers     |-> {},
      nextTimer  |-> 1,
      calls      |-> <<>>,
      executions |-> <<>> ]

\* throttle(func, limit); inThrottle starts undefined, which is falsy; calls
\* lists the calls of the returned function and whether each executed func
NewThrottled(limit) ==
    [ limit      |-> limit,
      inThrottle |-> FALSE,
      timers     |-> {},
      calls      |-> <<>> ]

\* new LRUCache(maxSize); entries is the Map in insertion order, last the
\* last operation and what it returned, useOrder the keys in the order of
\* their most recent set or get that found them
NewPlainLru(maxSize) ==
    [ entries  |-> <<>>,
      maxSize  |-> maxSize,
      last     |-> [op |-> "new", key |-> Undefined],
      ops      |-> 0,
      useOrder |-> <<>> ]

\* new ObjectPool(createFn, resetFn, maxSize); created counts the calls of
\* createFn, whose n-th call returns object n, last is the last operation
\* and the object it took or returned; every element of pool carries, with
\* the object, the number of the operation that pushed it
NewObjectPool(maxSize) ==
    [ pool     |-> <<>>,
      maxSize  |-> maxSize,
      created  |-> 0,
      last     |-> [op |-> "new", obj |-> 0],
      ops      |-> 0 ]

\* new RateLimiter(maxRequests, windowMs): requests maps an identifier to
\* the times of its recorded requests; log is the record of the calls made
NewRateLimiter(maxRequests, windowMs) ==
    [ requests    |-> <<>>,
      maxRequests |-> maxRequests,
      windowMs    |-> windowMs,
      log         |-> <<>> ]

\* the closure of a call withRetry(fn, maxRetries, delay) that has not been
\* made yet: attempt, the timer armed by setTimeout (0 when none is armed),
\* the promise returned, and the record of the calls of fn
NewRetry(maxRetries, delay) ==
    [ pc         |-> "new",
      maxRetries |-> maxRetries,
      delay      |-> delay,
      attempt    |-> 0,
      timer      |-> 0,
      promise    |-> [state |-> PendingPromise],
      calls      |-> <<>> ]

\* the utilities other than AsyncQueue and tool are not used
ToolsIdleExcept(tool) ==
    /\ IF tool = "batcher" THEN TRUE
       ELSE batcher = NewBatchProcessor(100, 100)
    /\ IF tool = "debounced" THEN TRUE
       ELSE debounced = NewDebounced(0)
    /\ IF tool = "throttled" THEN TRUE
       ELSE throttled = NewThrottled(0)
    /\ IF tool = "plainLru" THEN TRUE
       ELSE plainLru = NewPlainLru(1000)
    /\ IF tool = "pool" THEN TRUE
       ELSE pool = NewObjectPool(100)
    /\ IF tool = "limiter" THEN TRUE
       ELSE limiter = NewRateLimiter(0, 0)
    /\ IF tool = "retry" THEN TRUE
       ELSE retry = NewRetry(0, 0)

ToolsIdle == ToolsIdleExcept("none")

\* no AsyncQueue is used: one with the default concurrency and no task
UtilIdle == asyncQueue = NewQueue(1) /\ ToolsIdle

\* the cache of specification Spec is not used
LruIdle ==
    /\ lru = NewCache([maxSize |-> 0, defaultTtl |-> 0])
    /\ now = 0
    /\ lastOp = [op |-> "new", key |-> Undefined]
    /\ ops = 0
    /\ getCalls = 0
    /\ useOrder = <<>>
    /\ stored = [k \in Keys |-> NotStored]
    /\ hitCalls = 0
    /\ timer = NewTimer([cleanupInterval |-> 0, enableMetrics |-> TRUE])

Init == LruInit /\ MemoIdle /\ FsInit /\ UtilIdle

\* the clock advances by a millisecond
Tick ==
    /\ now < MaxTime
    /\ now' = now + 1
    /\ lastOp' = [op |-> "tick", key |-> Undefined]
    /\ UNCHANGED <<lru, ops, getCalls, useOrder, stored, hitCalls, timer>>
    /\ UNCHANGED <<memoVars, fsVars, utilVars>>

\* a caller calls get(key)
Get(key) ==
    /\ ops < MaxOps
    /\ LET got == CacheGet(lru, key, now) IN
          /\ lru' = got.cache
          /\ lastOp' = [op |-> "get", key |-> key, ret |-> got.ret]
          /\ useOrder' = Restrict(IF got.cache.hits > lru.hits
                                  THEN Touch(useOrder, key) ELSE useOrder,
                                  got.cache.entries)
    /\ ops' = ops + 1
    /\ getCalls' = getCalls + 1
    /\ hitCalls' = IF HoldsLive(lru, key, now) THEN hitCalls + 1 ELSE hitCalls
    /\ UNCHANGED <<now, stored, timer>>
    /\ UNCHANGED <<memoVars, fsVars, utilVars>>

\* a caller calls set(key, value, ttl)
Set(key, value, ttl) ==
    /\ ops < MaxOps
    /\ lru' = CacheSet(lru, key, value, ttl, now)
    /\ lastOp' = [op |-> "set", key |-> key,
                  replaced |-> MapHas(lru.entries, key)]
    /\ useOrder' = Restrict(Touch(useOrder, key), lru'.entries)
    /\ stored' = [k \in Keys |->
                    IF k = key
                    THEN [at |-> now, ttl |-> OrElse(ttl, lru.defaultTtl),
                          value |-> value]
                    ELSE IF MapHas(lru.entries, k) /\ ~MapHas(lru'.entries, k)
                    THEN NotStored
                    ELSE stored[k]]
    /\ ops' = ops + 1
    /\ UNCHANGED <<now, getCalls, hitCalls, timer>>
    /\ UNCHANGED <<memoVars, fsVars, utilVars>>

\* a caller calls has(key), which calls get(key)
Has(key) ==
    /\ ops < MaxOps
    /\ LET got == CacheHas(lru, key, now) IN
          /\ lru' = got.cache
          /\ lastOp' = [op |-> "has", key |-> key, ret |-> got.ret]
          /\ useOrder' = Restrict(IF got.cache.hits > lru.hits
                                  THEN Touch(useOrder, key) ELSE useOrder,
                                  got.cache.entries)
    /\ ops' = ops + 1
    /\ getCalls' = getCalls + 1
    /\ hitCalls' = IF HoldsLive(lru, key, now) THEN hitCalls + 1 ELSE hitCalls
    /\ UNCHANGED <<now, stored, timer>>
    /\ UNCHANGED <<memoVars, fsVars, utilVars>>

\* a caller calls delete(key)
Delete(key) ==
    /\ ops < MaxOps
    /\ LET got == CacheDelete(lru, key) IN
          /\ lru' = got.cache
          /\ lastOp' = [op |-> "delete", key |-> key, ret |-> got.ret]
          /\ useOrder' = Restrict(useOrder, got.cache.entries)
    /\ stored' = [stored EXCEPT ![key] = NotStored]
    /\ ops' = ops + 1
    /\ UNCHANGED <<now, getCalls, hitCalls, timer>>
    /\ UNCHANGED <<memoVars, fsVars, utilVars>>

\* a caller calls clear()
Clear ==
    /\ ops < MaxOps
    /\ lru' = CacheClear(lru)
    /\ lastOp' = [op |-> "clear", key |-> Undefined,
                  hadEntries |-> lru.entries # <<>>,
                  hadCounts  |-> lru.hits + lru.misses + lru.evictions > 0]
    /\ useOrder' = <<>>
    /\ stored' = [k \in Keys |-> NotStored]
    /\ getCalls' = 0
    /\ hitCalls' = 0
    /\ ops' = ops + 1
    /\ UNCHANGED <<now, timer>>
    /\ UNCHANGED <<memoVars, fsVars, utilVars>>

\* a caller, or the cleanup timer, calls cleanup()
Cleanup ==
    /\ ops < MaxOps
    /\ LET got == CacheCleanup(lru, now) IN
          /\ lru' = got.cache
          /\ lastOp' = [op |-> "cleanup", key |-> Undefined, ret |-> got.ret]
          /\ useOrder' = Restrict(useOrder, got.cache.entries)
    /\ ops' = ops + 1
    /\ UNCHANGED <<now, getCalls, stored, hitCalls, timer>>
    /\ UNCHANGED <<memoVars, fsVars, utilVars>>

Next ==
    \/ Tick
    \/ \E key \in LruKeys : Get(key)
    \/ \E key \in LruKeys, value \in LruValues, ttl \in TtlArgs :
          Set(key, value, ttl)
    \/ \E key \in LruKeys : Has(key)
    \/ \E key \in LruKeys : Delete(key)
    \/ Clear
    \/ Cleanup

Spec == Init /\ [][Next]_vars

(***************************************************************************)
(* Specification SpecTtl: the same cache, fewer keys, every value          *)
(***************************************************************************)
NextTtl ==
    \/ Tick
    \/ \E key \in TtlKeys : Get(key)
    \/ \E key \in TtlKeys, value \in Values, ttl \in TtlArgs :
          Set(key, value, ttl)
    \/ \E key \in TtlKeys : Has(key)
    \/ \E key \in TtlKeys : Delete(key)
    \/ Clear
    \/ Cleanup

SpecTtl == Init /\ [][NextTtl]_vars

(***************************************************************************)
(* Specification SpecConfig: a cache constructed with any maxSize and      *)
(* defaultTtl option, zero and negative ones included, and set() called    *)
(* with any ttl argument                                                   *)
(***************************************************************************)
\* new EnhancedLRUCache({ maxSize: m, defaultTtl: d }) has returned
ConfigInit ==
    /\ \E m \in ConfigSizes, d \in ConfigTtls :
          lru = NewCache([maxSize |-> m, defaultTtl |-> d])
    /\ now = 0
    /\ lastOp = [op |-> "new", key |-> Undefined]
    /\ ops = 0
    /\ getCalls = 0
    /\ useOrder = <<>>
    /\ stored = [k \in Keys |-> NotStored]
    /\ hitCalls = 0
    /\ timer = NewTimer([cleanupInterval |-> 0, enableMetrics |-> TRUE])
    /\ MemoIdle
    /\ FsInit
    /\ UtilIdle

NextConfig ==
    \/ Tick
    \/ \E key \in ConfigKeys : Get(key)
    \/ \E key \in ConfigKeys, value \in LruValues, ttl \in ConfigTtls :
          Set(key, value, ttl)
    \/ \E key \in ConfigKeys : Has(key)
    \/ \E key \in ConfigKeys : Delete(key)
    \/ Clear
    \/ Cleanup

SpecConfig == ConfigInit /\ [][NextConfig]_vars

(***************************************************************************)
(* Specification SpecTimer: a cache constructed with any cleanupInterval   *)
(* and enableMetrics option, its cleanup timer and dispose()               *)
(***************************************************************************)
\* new EnhancedLRUCache({ maxSize, cleanupInterval: i, enableMetrics: e })
\* has returned
TimerInit ==
    /\ lru = NewCache([maxSize |-> MaxCap, defaultTtl |-> 0])
    /\ \E i \in TimerIntervals, e \in BOOLEAN :
          timer = NewTimer([cleanupInterval |-> i, enableMetrics |-> e])
    /\ now = 0
    /\ lastOp = [op |-> "new", key |-> Undefined]
    /\ ops = 0
    /\ getCalls = 0
    /\ useOrder = <<>>
    /\ stored = [k \in Keys |-> NotStored]
    /\ hitCalls = 0
    /\ MemoIdle
    /\ FsInit
    /\ UtilIdle

\* the callback of setInterval runs: cleanup()
TimerFire ==
    /\ timer.armed
    /\ now >= timer.nextAt
    /\ ops < MaxOps
    /\ LET got == CacheCleanup(lru, now) IN
          /\ lru' = got.cache
          /\ lastOp' = [op |-> "timer", key |-> Undefined, ret |-> got.ret]
          /\ useOrder' = Restrict(useOrder, got.cache.entries)
    /\ timer' = [timer EXCEPT !.nextAt = @ + timer.cleanupInterval]
    /\ ops' = ops + 1
    /\ UNCHANGED <<now, getCalls, stored, hitCalls>>
    /\ UNCHANGED <<memoVars, fsVars, utilVars>>

\* a caller calls dispose(): clearInterval and clear()
Dispose ==
    /\ ops < MaxOps
    /\ timer' = [timer EXCEPT !.armed = FALSE, !.disposed = TRUE]
    /\ lru' = CacheClear(lru)
    /\ lastOp' = [op |-> "dispose", key |-> Undefined]
    /\ useOrder' = <<>>
    /\ stored' = [k \in Keys |-> NotStored]
    /\ getCalls' = 0
    /\ hitCalls' = 0
    /\ ops' = ops + 1
    /\ UNCHANGED now
    /\ UNCHANGED <<memoVars, fsVars, utilVars>>

NextTimer ==
    \/ Tick
    \/ \E key \in ConfigKeys : Get(key)
    \/ \E key \in ConfigKeys, value \in LruValues, ttl \in TtlArgs :
          Set(key, value, ttl)
    \/ TimerFire
    \/ Dispose

SpecTimer == TimerInit /\ [][NextTimer]_vars

(***************************************************************************)
(* Specification SpecMemo: MemoCache, one function wrapped by memoize()    *)
(* and one wrapped by memoizeAsync(), both with the default key generator  *)
(***************************************************************************)
\* the key of a call: keyGenerator is omitted, so JSON.stringify(args)
KeyOf(x) == x

\* the callers awaiting promise p get result
Settle(cs, p, result) ==
    [c \in DOMAIN cs |->
        IF cs[c].pc = "waiting" /\ cs[c].awaiting = p
        THEN [cs[c] EXCEPT !.pc = "done", !.ret = result]
        ELSE cs[c]]

MemoInit ==
    /\ LruIdle
    /\ memo = NewCache([maxSize |-> MEMO_MAX_SIZE, defaultTtl |-> 0])
    /\ syncFn \in [Args -> SyncResults]
    /\ syncTtl \in MemoTtls
    /\ memoCalls = 0
    /\ lastCall = [op |-> "new"]
    /\ syncInvoked = [x \in Args |-> 0]
    /\ window = [x \in Args |-> NoWindow]
    /\ pendingCache = [x \in Args |-> 0]
    /\ promises = <<>>
    /\ callers = [c \in Callers |-> IdleCaller]
    /\ FsInit
    /\ UtilIdle

\* the clock advances by a millisecond
MemoTick ==
    /\ now < MaxTime
    /\ now' = now + 1
    /\ UNCHANGED <<lruVars, memoVars, fsVars, utilVars>>

\* a call memoize(fn, undefined, syncTtl)(x); an exception of fn leaves the
\* wrapper before it stores anything
SyncCall(x) ==
    /\ memoCalls < MaxMemoCalls
    /\ memoCalls' = memoCalls + 1
    /\ LET got == CacheGet(memo, KeyOf(x), now) IN
          IF got.ret # Undefined
          THEN /\ memo' = got.cache
               /\ lastCall' = [op |-> "call", arg |-> x, ret |-> got.ret]
               /\ UNCHANGED <<syncInvoked, window>>
          ELSE IF syncFn[x] = Thrown
          THEN /\ memo' = got.cache
               /\ lastCall' = [op |-> "call", arg |-> x, ret |-> Thrown]
               /\ syncInvoked' = [syncInvoked EXCEPT ![x] = @ + 1]
               /\ UNCHANGED window
          ELSE /\ memo' = CacheSet(got.cache, KeyOf(x), syncFn[x], syncTtl, now)
               /\ lastCall' = [op |-> "call", arg |-> x, ret |-> syncFn[x]]
               /\ syncInvoked' = [syncInvoked EXCEPT ![x] = @ + 1]
               /\ window' = [window EXCEPT ![x] =
                                [at |-> now, ret |-> syncFn[x]]]
    /\ UNCHANGED <<now, lruVars, fsVars, utilVars, syncFn, syncTtl, pendingCache, promises,
                   callers>>

\* a call MemoCache.clear()
MemoClear ==
    /\ memoCalls < MaxMemoCalls
    /\ memoCalls' = memoCalls + 1
    /\ memo' = CacheClear(memo)
    /\ lastCall' = [op |-> "clear"]
    /\ window' = [x \in Args |-> NoWindow]
    /\ UNCHANGED <<now, lruVars, fsVars, utilVars, syncFn, syncTtl, syncInvoked, pendingCache,
                   promises, callers>>

\* caller c calls memoizeAsync(fn)(x): the wrapper runs to its return
AsyncCall(c, x) ==
    /\ callers[c].pc = "idle"
    /\ LET got == CacheGet(memo, KeyOf(x), now)
           me  == [callers[c] EXCEPT !.arg = x,
                                     !.sawPending = pendingCache[KeyOf(x)]]
       IN
          /\ memo' = got.cache
          /\ IF got.ret # Undefined
             THEN /\ callers' = [callers EXCEPT ![c] =
                         [me EXCEPT !.pc = "done", !.ret = got.ret]]
                  /\ UNCHANGED <<pendingCache, promises>>
             ELSE IF pendingCache[KeyOf(x)] # 0
             THEN /\ callers' = [callers EXCEPT ![c] =
                         [me EXCEPT !.pc = "waiting",
                                    !.awaiting = pendingCache[KeyOf(x)]]]
                  /\ UNCHANGED <<pendingCache, promises>>
             ELSE /\ promises' = Append(promises,
                                        [key |-> KeyOf(x), state |-> "pending"])
                  /\ pendingCache' = [pendingCache EXCEPT ![KeyOf(x)] =
                                          Len(promises) + 1]
                  /\ callers' = [callers EXCEPT ![c] =
                         [me EXCEPT !.pc = "waiting",
                                    !.awaiting = Len(promises) + 1,
                                    !.started = Len(promises) + 1]]
    /\ UNCHANGED <<now, lruVars, fsVars, utilVars, syncFn, syncTtl, memoCalls, lastCall,
                   syncInvoked, window>>

\* promise p of the wrapped async function resolves with result: the then
\* callback stores it and deletes the pending marker, the awaiting callers
\* get it
AsyncResolve(p, result) ==
    /\ p \in 1..Len(promises)
    /\ promises[p].state = "pending"
    /\ promises' = [promises EXCEPT ![p].state = "resolved"]
    /\ memo' = CacheSet(memo, promises[p].key, result, 0, now)
    /\ pendingCache' = [pendingCache EXCEPT ![promises[p].key] = 0]
    /\ callers' = Settle(callers, p, result)
    /\ UNCHANGED <<now, lruVars, fsVars, utilVars, syncFn, syncTtl, memoCalls, lastCall,
                   syncInvoked, window>>

\* a rejection whose catch callback leaves the pending marker in the Map
AsyncRejectKeepsMarker(p) ==
    /\ p \in 1..Len(promises)
    /\ promises[p].state = "pending"
    /\ promises' = [promises EXCEPT ![p].state = "rejected"]
    /\ callers' = Settle(callers, p, Rejected)
    /\ UNCHANGED <<now, lruVars, fsVars, utilVars, memo, syncFn, syncTtl,
                   memoCalls, lastCall, syncInvoked, window, pendingCache>>

\* promise p of the wrapped async function rejects: the catch callback
\* deletes the pending marker and throws again
AsyncReject(p) ==
    /\ p \in 1..Len(promises)
    /\ promises[p].state = "pending"
    /\ promises' = [promises EXCEPT ![p].state = "rejected"]
    /\ pendingCache' = [pendingCache EXCEPT ![promises[p].key] = 0]
    /\ callers' = Settle(callers, p, Rejected)
    /\ UNCHANGED <<now, lruVars, fsVars, utilVars, memo, syncFn, syncTtl, memoCalls, lastCall,
                   syncInvoked, window>>

NextMemo ==
    \/ MemoTick
    \/ \E x \in Args : SyncCall(x)
    \/ MemoClear
    \/ \E c \in Callers, x \in Args : AsyncCall(c, x)
    \/ \E p \in 1..Cardinality(Callers), result \in AsyncResults : AsyncResolve(p, result)
    \/ \E p \in 1..Cardinality(Callers) : AsyncReject(p)

SpecMemo == MemoInit /\ [][NextMemo]_vars

(***************************************************************************)
(* Specification SpecMemoCancel: MemoCache when an invocation of the       *)
(* wrapped async function may be abandoned and never settle                *)
(***************************************************************************)
\* the work behind promise p is cancelled: the promise stays unsettled for
\* ever, and no callback of the wrapper runs
Abandon(p) ==
    /\ p \in 1..Len(promises)
    /\ promises[p].state = "pending"
    /\ promises' = [promises EXCEPT ![p].state = "abandoned"]
    /\ UNCHANGED <<now, lruVars, fsVars, utilVars, memo, syncFn, syncTtl,
                   memoCalls, lastCall, syncInvoked, window, pendingCache,
                   callers>>

NextMemoCancel ==
    \/ MemoTick
    \/ \E x \in Args : SyncCall(x)
    \/ \E c \in Callers, x \in Args : AsyncCall(c, x)
    \/ \E p \in 1..Cardinality(Callers), result \in AsyncResults : AsyncResolve(p, result)
    \/ \E p \in 1..Cardinality(Callers) : AsyncReject(p)
    \/ \E p \in 1..Cardinality(Callers) : Abandon(p)

SpecMemoCancel == MemoInit /\ [][NextMemoCancel]_vars

(***************************************************************************)
(* Specification SpecFs: CachedFileSystem, a file it reads and that is     *)
(* changed from outside, and the tasks that call it; the accessor succeeds *)
(***************************************************************************)
\* shouldCache(path)
ShouldCache(path) ==
    \/ path.ext \in CacheableExtensions
    \/ path.stem \in CacheablePaths

\* the number of external changes after which a file has content
VersionOf(content) == CHOOSE v \in 0..(Len(Content) - 1) : Content[v + 1] = content

\* readFileWithCache / statWithCache that look in the cache even when a
\* refresh is forced
ReadCallCachedFirst(r, op, path, force) ==
    /\ readers[r].pc \in {"idle", "done"}
    /\ reads < MaxReads
    /\ reads' = reads + 1
    /\ fsLast' = [op |-> "call", path |-> path, reader |-> r]
    /\ LET cache == IF op = "read" THEN fileCache ELSE statCache
           got   == CacheGet(cache, path, now)
           me    == [IdleReader EXCEPT !.op = op, !.path = path,
                                       !.force = force,
                                       !.after = invalidated[path]]
       IN
          /\ IF op = "read"
             THEN fileCache' = got.cache /\ UNCHANGED statCache
             ELSE statCache' = got.cache /\ UNCHANGED fileCache
          /\ IF got.ret # Undefined
             THEN readers' = [readers EXCEPT ![r] =
                                 [me EXCEPT !.pc = "done", !.ret = got.ret]]
             ELSE readers' = [readers EXCEPT ![r] =
                                 [me EXCEPT !.pc = "reading"]]
    /\ awaitsRead' = IF op = "read" /\ ~force
                     THEN [awaitsRead EXCEPT ![path] = FALSE]
                     ELSE awaitsRead
    /\ UNCHANGED <<now, lruVars, memoVars, utilVars, disk, invalidated, populated>>

\* task r calls readFileWithCache(path, force) or statWithCache(path, force):
\* it returns the cached value, or starts the accessor and awaits it
ReadCall(r, op, path, force) ==
    /\ readers[r].pc \in {"idle", "done"}
    /\ reads < MaxReads
    /\ reads' = reads + 1
    /\ fsLast' = [op |-> "call", path |-> path, reader |-> r]
    /\ LET cache == IF op = "read" THEN fileCache ELSE statCache
           got   == CacheGet(cache, path, now)
           me    == [IdleReader EXCEPT !.op = op, !.path = path,
                                       !.force = force,
                                       !.after = invalidated[path]]
       IN
          /\ IF force
             THEN UNCHANGED <<fileCache, statCache>>
             ELSE IF op = "read"
             THEN fileCache' = got.cache /\ UNCHANGED statCache
             ELSE statCache' = got.cache /\ UNCHANGED fileCache
          /\ IF ~force /\ got.ret # Undefined
             THEN readers' = [readers EXCEPT ![r] =
                                 [me EXCEPT !.pc = "done", !.ret = got.ret]]
             ELSE readers' = [readers EXCEPT ![r] =
                                 [me EXCEPT !.pc = "reading"]]
    /\ awaitsRead' = IF op = "read" /\ ~force
                     THEN [awaitsRead EXCEPT ![path] = FALSE]
                     ELSE awaitsRead
    /\ UNCHANGED <<now, lruVars, memoVars, utilVars, disk, invalidated, populated>>

\* fs.promises.readFile or fs.promises.stat of task r resolves with what the
\* file holds now
AccessorResolve(r) ==
    /\ readers[r].pc = "reading"
    /\ readers' = [readers EXCEPT ![r].pc = "resolved",
                                  ![r].got = Content[disk[readers[r].path] + 1]]
    /\ fsLast' = [op |-> "resolve", path |-> readers[r].path]
    /\ UNCHANGED <<now, lruVars, memoVars, utilVars, fileCache, statCache, disk, reads,
                   invalidated, populated, awaitsRead>>

\* fs.promises.readFile or fs.promises.stat of task r rejects
AccessorReject(r) ==
    /\ readers[r].pc = "reading"
    /\ readers' = [readers EXCEPT ![r].pc = "resolved", ![r].got = AccessorError]
    /\ fsLast' = [op |-> "reject", path |-> readers[r].path]
    /\ UNCHANGED <<now, lruVars, memoVars, utilVars, fileCache, statCache, disk, reads,
                   invalidated, populated, awaitsRead>>

\* the return of readFileWithCache / statWithCache that stores whatever the
\* accessor gave, an error included
ReadReturnCachesFailure(r) ==
    /\ readers[r].pc = "resolved"
    /\ readers' = [readers EXCEPT ![r].pc = "done", ![r].ret = readers[r].got,
                                  ![r].got = Undefined]
    /\ fsLast' = [op |-> "return", path |-> readers[r].path, reader |-> r]
    /\ LET me == readers[r] IN
          /\ fileCache' =
                IF me.op = "read" /\ ShouldCache(me.path)
                THEN CacheSet(fileCache, me.path, me.got, 0, now)
                ELSE fileCache
          /\ statCache' =
                IF me.op = "stat"
                THEN CacheSet(statCache, me.path, me.got, 0, now)
                ELSE statCache
          /\ populated' =
                IF me.op = "read" /\ ShouldCache(me.path)
                THEN [populated EXCEPT ![me.path] = TRUE]
                ELSE populated
    /\ UNCHANGED <<now, lruVars, memoVars, utilVars, disk, reads, invalidated, awaitsRead>>

\* the return of readFileWithCache that stores the content of every path
ReadReturnStoresAll(r) ==
    /\ readers[r].pc = "resolved"
    /\ readers' = [readers EXCEPT ![r].pc = "done", ![r].ret = readers[r].got,
                                  ![r].got = Undefined]
    /\ fsLast' = [op |-> "return", path |-> readers[r].path, reader |-> r]
    /\ LET me == readers[r] IN
          /\ fileCache' =
                IF me.op = "read" /\ me.got # AccessorError
                THEN CacheSet(fileCache, me.path, me.got, 0, now)
                ELSE fileCache
          /\ statCache' =
                IF me.op = "stat" /\ me.got # AccessorError
                THEN CacheSet(statCache, me.path, me.got, 0, now)
                ELSE statCache
          /\ populated' =
                IF me.op = "read" /\ me.got # AccessorError
                THEN [populated EXCEPT ![me.path] = TRUE]
                ELSE populated
    /\ UNCHANGED <<now, lruVars, memoVars, utilVars, disk, reads, invalidated, awaitsRead>>

\* the return of readFileWithCache / statWithCache that leaves an entry
\* another call has stored meanwhile as it is
ReadReturnKeepsFirst(r) ==
    /\ readers[r].pc = "resolved"
    /\ readers' = [readers EXCEPT ![r].pc = "done", ![r].ret = readers[r].got,
                                  ![r].got = Undefined]
    /\ fsLast' = [op |-> "return", path |-> readers[r].path, reader |-> r]
    /\ LET me == readers[r] IN
          /\ fileCache' =
                IF /\ me.op = "read" /\ me.got # AccessorError
                   /\ ShouldCache(me.path)
                   /\ ~MapHas(fileCache.entries, me.path)
                THEN CacheSet(fileCache, me.path, me.got, 0, now)
                ELSE fileCache
          /\ statCache' =
                IF /\ me.op = "stat" /\ me.got # AccessorError
                   /\ ~MapHas(statCache.entries, me.path)
                THEN CacheSet(statCache, me.path, me.got, 0, now)
                ELSE statCache
          /\ populated' =
                IF me.op = "read" /\ me.got # AccessorError /\ ShouldCache(me.path)
                THEN [populated EXCEPT ![me.path] = TRUE]
                ELSE populated
    /\ UNCHANGED <<now, lruVars, memoVars, utilVars, disk, reads, invalidated, awaitsRead>>

\* task r resumes after its await: it stores a successful result and returns
ReadReturn(r) ==
    /\ readers[r].pc = "resolved"
    /\ readers' = [readers EXCEPT ![r].pc = "done", ![r].ret = readers[r].got,
                                  ![r].got = Undefined]
    /\ fsLast' = [op |-> "return", path |-> readers[r].path, reader |-> r]
    /\ LET me == readers[r] IN
          /\ fileCache' =
                IF me.op = "read" /\ me.got # AccessorError /\ ShouldCache(me.path)
                THEN CacheSet(fileCache, me.path, me.got, 0, now)
                ELSE fileCache
          /\ statCache' =
                IF me.op = "stat" /\ me.got # AccessorError
                THEN CacheSet(statCache, me.path, me.got, 0, now)
                ELSE statCache
          /\ populated' =
                IF me.op = "read" /\ me.got # AccessorError /\ ShouldCache(me.path)
                THEN [populated EXCEPT ![me.path] = TRUE]
                ELSE populated
    /\ UNCHANGED <<now, lruVars, memoVars, utilVars, disk, reads, invalidated, awaitsRead>>

\* the file at path is changed from outside
ExternalChange(path) ==
    /\ disk[path] < MaxVersion
    /\ disk' = [disk EXCEPT ![path] = @ + 1]
    /\ fsLast' = [op |-> "change", path |-> path]
    /\ UNCHANGED <<now, lruVars, memoVars, utilVars, fileCache, statCache, readers, reads,
                   invalidated, populated, awaitsRead>>

\* invalidateCache(path), called by the callback of watchConfigFile after a
\* change or by any caller
InvalidateCache(path) ==
    /\ fileCache' = CacheDelete(fileCache, path).cache
    /\ statCache' = CacheDelete(statCache, path).cache
    /\ fsLast' = [op |-> "invalidate", path |-> path]
    /\ invalidated' = [invalidated EXCEPT ![path] = disk[path]]
    /\ awaitsRead' = [awaitsRead EXCEPT ![path] = populated[path]]
    /\ UNCHANGED <<now, lruVars, memoVars, utilVars, disk, readers, reads, populated>>

NextFs ==
    \/ \E r \in Readers, path \in FsPaths, force \in BOOLEAN :
          ReadCall(r, "read", path, force)
    \/ \E r \in Readers, path \in FsPaths : ReadCall(r, "stat", path, FALSE)
    \/ \E r \in Readers : AccessorResolve(r)
    \/ \E r \in Readers : ReadReturn(r)
    \/ \E path \in FsPaths : ExternalChange(path)
    \/ \E path \in FsPaths : InvalidateCache(path)

\* neither the cache of specification Spec nor MemoCache is used
FsOnlyInit == LruIdle /\ MemoIdle /\ FsInit /\ UtilIdle

SpecFs == FsOnlyInit /\ [][NextFs]_vars

(***************************************************************************)
(* Specification SpecFsErr: CachedFileSystem with an accessor that may     *)
(* fail, a cacheable and a non-cacheable path, forced and unforced calls   *)
(***************************************************************************)
NextFsErr ==
    \/ \E r \in Readers, path \in Paths, force \in BOOLEAN :
          ReadCall(r, "read", path, force)
    \/ \E r \in Readers, path \in Paths, force \in BOOLEAN :
          ReadCall(r, "stat", path, force)
    \/ \E r \in Readers : AccessorResolve(r)
    \/ \E r \in Readers : AccessorReject(r)
    \/ \E r \in Readers : ReadReturn(r)

SpecFsErr == FsOnlyInit /\ [][NextFsErr]_vars

(***************************************************************************)
(* Specification SpecFsFull: CachedFileSystem whose content cache is full  *)
(* (maxSize: 100 files read one after another), then reads of a cached and *)
(* of a new file, invalidateCache, clearCaches and the passing of the TTL  *)
(***************************************************************************)
\* the n-th configuration file read
FillPath(n) == [stem |-> ToString(n), ext |-> ".json"]

\* the files read while the content cache fills, and one more
FillPaths == {FillPath(n) : n \in 1..(FILE_CACHE_MAX_SIZE + 1)}

\* the paths the callers use once the cache is full: the one read first
\* and the one not read yet
FullPaths == {FillPath(1), FillPath(FILE_CACHE_MAX_SIZE + 1)}

\* the task that calls readFileWithCache and statWithCache once the cache is
\* full
FullReader == "r1"

\* the content cache after readFileWithCache(FillPath(1)) ..
\* readFileWithCache(FillPath(maxSize)) at time 0, each awaited before the
\* next is called: every fileCache.get was a miss, every accessor call
\* succeeded, every fileCache.set appended an entry and none evicted
FullFileCache ==
    LET c == NewCache([maxSize |-> FILE_CACHE_MAX_SIZE,
                       defaultTtl |-> FILE_CACHE_TTL])
    IN  [c EXCEPT !.entries = [n \in 1..FILE_CACHE_MAX_SIZE |->
                                  NewEntry(c, FillPath(n), Content[1], 0, 0)],
                  !.misses = FILE_CACHE_MAX_SIZE]

FsFullInit ==
    /\ fileCache = FullFileCache
    /\ statCache = NewCache([maxSize |-> STAT_CACHE_MAX_SIZE,
                             defaultTtl |-> STAT_CACHE_TTL])
    /\ disk = [p \in FillPaths |-> 0]
    /\ readers = [r \in Readers |-> IdleReader]
    /\ reads = 0
    /\ fsLast = [op |-> "new", path |-> Undefined]
    /\ invalidated = [p \in FillPaths |-> -1]
    /\ populated = [p \in FillPaths |-> p # FillPath(FILE_CACHE_MAX_SIZE + 1)]
    /\ awaitsRead = [p \in FillPaths |-> FALSE]
    /\ LruIdle
    /\ MemoIdle
    /\ UtilIdle

\* clearCaches()
ClearCaches ==
    /\ fileCache' = CacheClear(fileCache)
    /\ statCache' = CacheClear(statCache)
    /\ fsLast' = [op |-> "clearCaches", path |-> Undefined]
    /\ UNCHANGED <<now, lruVars, memoVars, utilVars, disk, readers, reads,
                   invalidated, populated, awaitsRead>>

\* the ttl of the content cache passes
TtlElapse ==
    /\ now <= MaxTime
    /\ now' = now + FILE_CACHE_TTL + 1
    /\ fsLast' = [op |-> "elapse", path |-> Undefined]
    /\ UNCHANGED <<lruVars, memoVars, utilVars, fileCache, statCache, disk,
                   readers, reads, invalidated, populated, awaitsRead>>

NextFsFull ==
    \/ \E path \in FullPaths, force \in BOOLEAN :
          ReadCall(FullReader, "read", path, force)
    \/ ReadCall(FullReader, "stat", FillPath(FILE_CACHE_MAX_SIZE + 1), FALSE)
    \/ AccessorResolve(FullReader)
    \/ ReadReturn(FullReader)
    \/ InvalidateCache(FillPath(1))
    \/ ClearCaches
    \/ TtlElapse

SpecFsFull == FsFullInit /\ [][NextFsFull]_vars

(***************************************************************************)
(* Specification SpecQueue: one AsyncQueue, the tasks given to add() and   *)
(* the order in which they settle                                          *)
(***************************************************************************)
\* process() that starts a task whatever the number running
ProcessUnlimited(s) ==
    IF s.queue = <<>>
    THEN s
    ELSE [s EXCEPT !.running = @ + 1,
                   !.queue = Tail(@),
                   !.tasks[Head(s.queue)] = "running",
                   !.started = Append(@, Head(s.queue))]

\* process() up to its await: the first queued task is started unless the
\* limit is reached or nothing is queued
Process(s) ==
    IF s.running >= s.concurrency \/ s.queue = <<>>
    THEN s
    ELSE [s EXCEPT !.running = @ + 1,
                   !.queue = Tail(@),
                   !.tasks[Head(s.queue)] = "running",
                   !.started = Append(@, Head(s.queue))]

\* new AsyncQueue(c) with a positive number of slots
QueueInit ==
    /\ \E c \in 1..MaxConcurrency : asyncQueue = NewQueue(c)
    /\ LruIdle
    /\ MemoIdle
    /\ FsInit
    /\ ToolsIdle

\* add(t): the wrapped task is pushed and process() is called
Add(t) ==
    /\ asyncQueue.tasks[t] = NewTask
    /\ asyncQueue' = Process([asyncQueue EXCEPT !.queue = Append(@, t),
                                                !.tasks[t] = "queued",
                                                !.added = Append(@, t)])
    /\ UNCHANGED <<now, lruVars, memoVars, fsVars, toolVars>>

\* the promise of a running task resolves or rejects; the wrapped task
\* passes the outcome to the caller of add() (resolve(result) after the
\* await, reject(error) in the catch block) and never rejects itself
TaskSettle(t, outcome) ==
    /\ asyncQueue.tasks[t] = "running"
    /\ asyncQueue' = [asyncQueue EXCEPT !.tasks[t] = outcome,
                                        !.outcome[t] = outcome,
                                        !.promise[t] = outcome]
    /\ UNCHANGED <<now, lruVars, memoVars, fsVars, toolVars>>

\* process() that frees the slot and calls process() again only after a
\* task that resolved
ProcessResumeStopsOnFailure(t) ==
    /\ asyncQueue.tasks[t] \in {"resolved", "rejected"}
    /\ asyncQueue' =
          IF asyncQueue.tasks[t] = "rejected"
          THEN [asyncQueue EXCEPT !.running = @ - 1, !.tasks[t] = "done"]
          ELSE Process([asyncQueue EXCEPT !.running = @ - 1,
                                          !.tasks[t] = "done"])
    /\ UNCHANGED <<now, lruVars, memoVars, fsVars, toolVars>>

\* process() after its await: the finally block frees the slot and calls
\* process() again
ProcessResume(t) ==
    /\ asyncQueue.tasks[t] \in {"resolved", "rejected"}
    /\ asyncQueue' = Process([asyncQueue EXCEPT !.running = @ - 1,
                                                !.tasks[t] = "done"])
    /\ UNCHANGED <<now, lruVars, memoVars, fsVars, toolVars>>

NextQueue ==
    \/ \E t \in QueueTasks : Add(t)
    \/ \E t \in QueueTasks, outcome \in {"resolved", "rejected"} :
          TaskSettle(t, outcome)
    \/ \E t \in QueueTasks : ProcessResume(t)

SpecQueue == QueueInit /\ [][NextQueue]_vars

\* every started task settles, and the continuation of process() after its
\* await runs once the task it awaited has settled
QueueFairness ==
    /\ \A t \in QueueTasks :
          WF_vars(\E outcome \in {"resolved", "rejected"} : TaskSettle(t, outcome))
    /\ \A t \in QueueTasks : WF_vars(ProcessResume(t))

SpecQueueLive == QueueInit /\ [][NextQueue]_vars /\ QueueFairness

(***************************************************************************)
(* Specification SpecBatch: one BatchProcessor, the callers of add() and   *)
(* flush(), the clock and the flush timer                                  *)
(***************************************************************************)
\* the variables of the other components
coreVars == <<lruVars, memoVars, fsVars, asyncQueue>>

\* the maxBatchSize and maxWaitTime options
BatchSizes == {1, 2, 3}
WaitTimes == {1, 2}

\* flush() that leaves the timer armed
FlushKeepsTimer(b, t, by) ==
    IF b.items = <<>>
    THEN b
    ELSE [b EXCEPT !.items = <<>>,
                   !.processed = Append(@, [items |-> b.items, at |-> t,
                                            by |-> by])]

\* flush() at time t, called by add ("size"), by the timer or by a caller:
\* the timer is cleared, and the pending items, if any, go to processFn
Flush(b, t, by) ==
    LET c == IF b.timeout # 0
             THEN [b EXCEPT !.timers = {x \in @ : x.id # b.timeout},
                            !.timeout = 0]
             ELSE b
    IN  IF c.items = <<>>
        THEN c
        ELSE [c EXCEPT !.items = <<>>,
                       !.processed = Append(@, [items |-> c.items, at |-> t,
                                                by |-> by])]

BatchInit ==
    /\ \E size \in BatchSizes, wait \in WaitTimes :
          batcher = NewBatchProcessor(size, wait)
    /\ ToolsIdleExcept("batcher")
    /\ asyncQueue = NewQueue(1)
    /\ LruIdle
    /\ MemoIdle
    /\ FsInit

\* add(item): the item is the next one, stamped with the time of the call
BatchAdd ==
    /\ batcher.added < MaxItems
    /\ LET item   == [id |-> batcher.added + 1, at |-> now]
           pushed == [batcher EXCEPT !.items = Append(@, item),
                                     !.added = @ + 1]
       IN  batcher' =
             IF Len(pushed.items) >= pushed.maxBatchSize
             THEN Flush(pushed, now, "size")
             ELSE IF Len(pushed.items) = 1
             THEN [pushed EXCEPT
                     !.timeout = pushed.nextTimer,
                     !.timers = @ \cup {[id |-> pushed.nextTimer,
                                         at |-> now + pushed.maxWaitTime]},
                     !.nextTimer = @ + 1]
             ELSE pushed
    /\ UNCHANGED <<now, coreVars, exceptBatcher>>

\* a caller calls flush()
BatchFlush ==
    /\ batcher' = Flush(batcher, now, "flush")
    /\ UNCHANGED <<now, coreVars, exceptBatcher>>

\* a timer whose delay has passed fires and its callback calls flush()
BatchTimerFire ==
    /\ \E x \in batcher.timers :
          /\ now >= x.at
          /\ batcher' = Flush([batcher EXCEPT !.timers = @ \ {x}], now, "timer")
    /\ UNCHANGED <<now, coreVars, exceptBatcher>>

\* a millisecond passes while a timer is armed; a timer fires when its delay
\* has passed
BatchTick ==
    /\ batcher.timers # {}
    /\ \A x \in batcher.timers : now < x.at
    /\ now' = now + 1
    /\ UNCHANGED <<batcher, coreVars, exceptBatcher>>

NextBatch ==
    \/ BatchAdd
    \/ BatchFlush
    \/ BatchTimerFire
    \/ BatchTick

\* the clock runs and an armed timer fires
BatchFairness == WF_vars(BatchTick) /\ WF_vars(BatchTimerFire)

SpecBatch == BatchInit /\ [][NextBatch]_vars /\ BatchFairness

(***************************************************************************)
(* Specification SpecDebounce: a function wrapped by debounce(func, wait), *)
(* its callers, the clock and the timers                                   *)
(***************************************************************************)
\* the wrapped function called without clearTimeout
DebounceCallKeepsTimers ==
    /\ Len(debounced.calls) < MaxCalls
    /\ LET args == Len(debounced.calls) + 1 IN
       debounced' =
          [debounced EXCEPT
              !.calls = Append(@, [args |-> args, at |-> now]),
              !.timers = @ \cup {[id |-> debounced.nextTimer,
                                  at |-> now + debounced.wait,
                                  args |-> args]},
              !.timeout = debounced.nextTimer,
              !.nextTimer = @ + 1]
    /\ UNCHANGED <<now, coreVars, exceptDebounced>>

DebounceInit ==
    /\ \E wait \in WaitTimes : debounced = NewDebounced(wait)
    /\ ToolsIdleExcept("debounced")
    /\ asyncQueue = NewQueue(1)
    /\ LruIdle
    /\ MemoIdle
    /\ FsInit

\* the wrapped function is called; the arguments of the n-th call are n:
\* clearTimeout(timeout), timeout = setTimeout(later, wait)
DebounceCall ==
    /\ Len(debounced.calls) < MaxCalls
    /\ LET args == Len(debounced.calls) + 1 IN
       debounced' =
          [debounced EXCEPT
              !.calls = Append(@, [args |-> args, at |-> now]),
              !.timers = {x \in @ : x.id # debounced.timeout}
                            \cup {[id |-> debounced.nextTimer,
                                   at |-> now + debounced.wait,
                                   args |-> args]},
              !.timeout = debounced.nextTimer,
              !.nextTimer = @ + 1]
    /\ UNCHANGED <<now, coreVars, exceptDebounced>>

\* a timer whose delay has passed fires: later() sets timeout to undefined
\* and calls func with the arguments of the call that armed the timer
DebounceTimerFire ==
    /\ \E x \in debounced.timers :
          /\ now >= x.at
          /\ debounced' =
                [debounced EXCEPT
                    !.timers = @ \ {x},
                    !.timeout = 0,
                    !.executions = Append(@, [args |-> x.args, at |-> now])]
    /\ UNCHANGED <<now, coreVars, exceptDebounced>>

\* a millisecond passes while a timer is armed; a timer fires when its delay
\* has passed
DebounceTick ==
    /\ debounced.timers # {}
    /\ \A x \in debounced.timers : now < x.at
    /\ now' = now + 1
    /\ UNCHANGED <<debounced, coreVars, exceptDebounced>>

NextDebounce ==
    \/ DebounceCall
    \/ DebounceTimerFire
    \/ DebounceTick

\* the clock runs and an armed timer fires
DebounceFairness == WF_vars(DebounceTick) /\ WF_vars(DebounceTimerFire)

SpecDebounce == DebounceInit /\ [][NextDebounce]_vars /\ DebounceFairness

(***************************************************************************)
(* Specification SpecThrottle: a function wrapped by throttle(func,        *)
(* limit), its callers, the clock and the timers                           *)
(***************************************************************************)
\* the limit argument
Limits == {1, 2}

\* the time after which the clock stops when no timer is armed
ClockEnd == MaxCalls * 3

\* the wrapped function that executes func and does not set inThrottle
ThrottleCallNoFlag ==
    /\ Len(throttled.calls) < MaxCalls
    /\ throttled' =
          [throttled EXCEPT !.calls = Append(@, [at |-> now, executed |-> TRUE])]
    /\ UNCHANGED <<now, coreVars, exceptThrottled>>

ThrottleInit ==
    /\ \E limit \in Limits : throttled = NewThrottled(limit)
    /\ ToolsIdleExcept("throttled")
    /\ asyncQueue = NewQueue(1)
    /\ LruIdle
    /\ MemoIdle
    /\ FsInit

\* the wrapped function is called: unless inThrottle, func is executed,
\* inThrottle is set and a timer of limit is armed
ThrottleCall ==
    /\ Len(throttled.calls) < MaxCalls
    /\ throttled' =
          IF ~throttled.inThrottle
          THEN [throttled EXCEPT
                   !.calls = Append(@, [at |-> now, executed |-> TRUE]),
                   !.inThrottle = TRUE,
                   !.timers = @ \cup {[at |-> now + throttled.limit]}]
          ELSE [throttled EXCEPT
                   !.calls = Append(@, [at |-> now, executed |-> FALSE])]
    /\ UNCHANGED <<now, coreVars, exceptThrottled>>

\* a timer whose delay has passed fires: inThrottle = false
ThrottleTimerFire ==
    /\ \E x \in throttled.timers :
          /\ now >= x.at
          /\ throttled' = [throttled EXCEPT !.timers = @ \ {x},
                                            !.inThrottle = FALSE]
    /\ UNCHANGED <<now, coreVars, exceptThrottled>>

\* a millisecond passes; a timer fires when its delay has passed
ThrottleTick ==
    /\ \A x \in throttled.timers : now < x.at
    /\ throttled.timers # {} \/ now < ClockEnd
    /\ now' = now + 1
    /\ UNCHANGED <<throttled, coreVars, exceptThrottled>>

NextThrottle ==
    \/ ThrottleCall
    \/ ThrottleTimerFire
    \/ ThrottleTick

SpecThrottle == ThrottleInit /\ [][NextThrottle]_vars

(***************************************************************************)
(* Specification SpecPlainLru: one LRUCache of optimization.ts and its     *)
(* callers; the values stored are any values, undefined included           *)
(***************************************************************************)
\* the keys and the values the callers use
PlainKeys == {"a", "b", "c"}
PlainValues == {"v1", Undefined}

PlainInit ==
    /\ \E maxSize \in 1..MaxCap : plainLru = NewPlainLru(maxSize)
    /\ ToolsIdleExcept("plainLru")
    /\ asyncQueue = NewQueue(1)
    /\ LruIdle
    /\ MemoIdle
    /\ FsInit

\* get(key): a value that is not undefined is moved to the end of the Map
PlainGet(key) ==
    /\ plainLru.ops < MaxOps
    /\ LET held  == MapHas(plainLru.entries, key)
           value == IF held THEN MapGet(plainLru.entries, key).value
                    ELSE Undefined
       IN  plainLru' =
             [plainLru EXCEPT
                 !.entries = IF value # Undefined
                             THEN Append(MapDelete(@, key),
                                         [key |-> key, value |-> value])
                             ELSE @,
                 !.last = [op |-> "get", key |-> key, ret |-> value],
                 !.ops = @ + 1,
                 !.useOrder = IF held THEN Touch(@, key) ELSE @]
    /\ UNCHANGED <<now, coreVars, exceptPlainLru>>

\* set(key, value): a present key is deleted and set again; a new key into
\* a full Map deletes the first key
PlainSet(key, value) ==
    /\ plainLru.ops < MaxOps
    /\ LET kept == IF MapHas(plainLru.entries, key)
                   THEN MapDelete(plainLru.entries, key)
                   ELSE IF Len(plainLru.entries) >= plainLru.maxSize
                   THEN DeleteFirst(plainLru.entries)
                   ELSE plainLru.entries
           after == Append(kept, [key |-> key, value |-> value])
       IN  plainLru' =
             [plainLru EXCEPT
                 !.entries = after,
                 !.last = [op |-> "set", key |-> key,
                           ret |-> Undefined],
                 !.ops = @ + 1,
                 !.useOrder = Restrict(Touch(@, key), after)]
    /\ UNCHANGED <<now, coreVars, exceptPlainLru>>

\* has(key)
PlainHas(key) ==
    /\ plainLru.ops < MaxOps
    /\ plainLru' =
          [plainLru EXCEPT
              !.last = [op |-> "has", key |-> key,
                        ret |-> IF MapHas(plainLru.entries, key)
                                THEN "true" ELSE "false"],
              !.ops = @ + 1]
    /\ UNCHANGED <<now, coreVars, exceptPlainLru>>

\* delete(key)
PlainDelete(key) ==
    /\ plainLru.ops < MaxOps
    /\ LET after == MapDelete(plainLru.entries, key) IN
       plainLru' =
          [plainLru EXCEPT
              !.entries = after,
              !.last = [op |-> "delete", key |-> key,
                        ret |-> IF MapHas(plainLru.entries, key)
                                THEN "true" ELSE "false"],
              !.ops = @ + 1,
              !.useOrder = Restrict(@, after)]
    /\ UNCHANGED <<now, coreVars, exceptPlainLru>>

\* clear()
PlainClear ==
    /\ plainLru.ops < MaxOps
    /\ plainLru' =
          [plainLru EXCEPT
              !.entries = <<>>,
              !.last = [op |-> "clear", key |-> Undefined],
              !.ops = @ + 1,
              !.useOrder = <<>>]
    /\ UNCHANGED <<now, coreVars, exceptPlainLru>>

NextPlainLru ==
    \/ \E key \in PlainKeys : PlainGet(key)
    \/ \E key \in PlainKeys, value \in PlainValues : PlainSet(key, value)
    \/ \E key \in PlainKeys : PlainHas(key)
    \/ \E key \in PlainKeys : PlainDelete(key)
    \/ PlainClear

SpecPlainLru == PlainInit /\ [][NextPlainLru]_vars

(***************************************************************************)
(* Specification SpecPool: one ObjectPool of objects and the callers of    *)
(* acquire(), release() and clear()                                        *)
(***************************************************************************)
\* acquire() that takes the object released first
AcquireOldest ==
    /\ pool.ops < MaxPoolOps
    /\ IF pool.pool # <<>>
       THEN pool' = [pool EXCEPT
                        !.pool = Tail(@),
                        !.last = [op |-> "acquire", obj |-> Head(pool.pool).obj],
                        !.ops = @ + 1]
       ELSE /\ pool.created < MaxObjects
            /\ pool' = [pool EXCEPT
                           !.created = @ + 1,
                           !.last = [op |-> "acquire", obj |-> pool.created + 1],
                           !.ops = @ + 1]
    /\ UNCHANGED <<now, coreVars, exceptPool>>

PoolInit ==
    /\ \E maxSize \in 0..MaxCap : pool = NewObjectPool(maxSize)
    /\ ToolsIdleExcept("pool")
    /\ asyncQueue = NewQueue(1)
    /\ LruIdle
    /\ MemoIdle
    /\ FsInit

\* acquire(): the object popped from the pool, or a new one from createFn
Acquire ==
    /\ pool.ops < MaxPoolOps
    /\ IF pool.pool # <<>>
       THEN pool' = [pool EXCEPT
                        !.pool = SubSeq(@, 1, Len(@) - 1),
                        !.last = [op |-> "acquire",
                                  obj |-> pool.pool[Len(pool.pool)].obj],
                        !.ops = @ + 1]
       ELSE /\ pool.created < MaxObjects
            /\ pool' = [pool EXCEPT
                           !.created = @ + 1,
                           !.last = [op |-> "acquire", obj |-> pool.created + 1],
                           !.ops = @ + 1]
    /\ UNCHANGED <<now, coreVars, exceptPool>>

\* release(obj) of an object createFn has made: pushed unless the pool is
\* full
Release(obj) ==
    /\ pool.ops < MaxPoolOps
    /\ obj <= pool.created
    /\ pool' =
          IF Len(pool.pool) < pool.maxSize
          THEN [pool EXCEPT
                   !.pool = Append(@, [obj |-> obj, at |-> pool.ops + 1]),
                   !.last = [op |-> "release", obj |-> obj],
                   !.ops = @ + 1]
          ELSE [pool EXCEPT
                   !.last = [op |-> "release", obj |-> obj],
                   !.ops = @ + 1]
    /\ UNCHANGED <<now, coreVars, exceptPool>>

\* clear(): pool.length = 0
PoolClear ==
    /\ pool.ops < MaxPoolOps
    /\ pool' = [pool EXCEPT !.pool = <<>>,
                            !.last = [op |-> "clear", obj |-> 0],
                            !.ops = @ + 1]
    /\ UNCHANGED <<now, coreVars, exceptPool>>

NextPool ==
    \/ Acquire
    \/ \E obj \in 1..MaxObjects : Release(obj)
    \/ PoolClear

SpecPool == PoolInit /\ [][NextPool]_vars

(***************************************************************************)
(* Specification SpecLimiter: one RateLimiter, two identifiers, a clock    *)
(* that does not run backwards, and the callers of isAllowed() and         *)
(* cleanup()                                                               *)
(***************************************************************************)
\* the identifiers the callers pass
Identifiers == {"alice", "bob"}

\* the maxRequests the limiter is constructed with
RequestLimits == {0, 1, 2}

\* the windowMs the limiter is constructed with
Windows == {1, 2}

\* the last millisecond of the clock
LimiterClockEnd == MaxTime + 1

\* requests.filter(time => time > windowStart)
Recent(times, windowStart) == SelectSeq(times, LAMBDA time : time > windowStart)

\* this.requests.get(identifier) || []
RequestsOf(requests, identifier) ==
    IF MapHas(requests, identifier)
    THEN MapGet(requests, identifier).times
    ELSE <<>>

\* the loop of cleanup() over the first n entries of the Map
RECURSIVE CleanupLoop(_, _, _)
CleanupLoop(requests, n, windowStart) ==
    IF n = 0 THEN requests
    ELSE LET done   == CleanupLoop(requests, n - 1, windowStart)
             e      == requests[n]
             recent == Recent(e.times, windowStart)
         IN IF Len(recent) = 0
            THEN MapDelete(done, e.key)
            ELSE MapSet(done, e.key, [key |-> e.key, times |-> recent])

\* cleanup() that empties the Map
LimiterCleanupDropsAll ==
    /\ Len(limiter.log) < MaxChecks
    /\ limiter' = [limiter EXCEPT
                      !.requests = <<>>,
                      !.log = Append(@, [op |-> "cleanup", id |-> Undefined,
                                         at |-> now, allowed |-> FALSE])]
    /\ UNCHANGED <<now, coreVars, exceptLimiter>>

LimiterInit ==
    /\ \E maxRequests \in RequestLimits, windowMs \in Windows :
          limiter = NewRateLimiter(maxRequests, windowMs)
    /\ ToolsIdleExcept("limiter")
    /\ asyncQueue = NewQueue(1)
    /\ LruIdle
    /\ MemoIdle
    /\ FsInit

\* isAllowed(identifier): false when the requests recorded within the
\* window are maxRequests or more; otherwise the request is recorded
IsAllowed(identifier) ==
    /\ Len(limiter.log) < MaxChecks
    /\ LET windowStart      == now - limiter.windowMs
           existingRequests == RequestsOf(limiter.requests, identifier)
           recentRequests   == Recent(existingRequests, windowStart)
       IN IF Len(recentRequests) >= limiter.maxRequests
          THEN limiter' = [limiter EXCEPT
                  !.log = Append(@, [op |-> "isAllowed", id |-> identifier,
                                     at |-> now, allowed |-> FALSE])]
          ELSE limiter' = [limiter EXCEPT
                  !.requests = MapSet(@, identifier,
                                      [key |-> identifier,
                                       times |-> Append(recentRequests, now)]),
                  !.log = Append(@, [op |-> "isAllowed", id |-> identifier,
                                     at |-> now, allowed |-> TRUE])]
    /\ UNCHANGED <<now, coreVars, exceptLimiter>>

\* cleanup(): every identifier keeps the requests within the window, and is
\* deleted when none is left
LimiterCleanup ==
    /\ Len(limiter.log) < MaxChecks
    /\ limiter' = [limiter EXCEPT
                      !.requests = CleanupLoop(@, Len(@), now - limiter.windowMs),
                      !.log = Append(@, [op |-> "cleanup", id |-> Undefined,
                                         at |-> now, allowed |-> FALSE])]
    /\ UNCHANGED <<now, coreVars, exceptLimiter>>

\* Date.now() advances by a millisecond
LimiterTick ==
    /\ now < LimiterClockEnd
    /\ now' = now + 1
    /\ UNCHANGED <<coreVars, toolVars>>

NextLimiter ==
    \/ \E identifier \in Identifiers : IsAllowed(identifier)
    \/ LimiterCleanup
    \/ LimiterTick

SpecLimiter == LimiterInit /\ [][NextLimiter]_vars

(***************************************************************************)
(* Specification SpecRetry: one call of ErrorUtils.withRetry with a        *)
(* function that returns Ok or Err as it likes and does not throw, the     *)
(* clock and the timer                                                     *)
(***************************************************************************)
\* the delay argument
Delays == {1, 2}

\* tryFn that retries once more: attempt > maxRetries
TryFnOneMore(r, isOk, t) ==
    LET result == [isOk |-> isOk, call |-> Len(r.calls) + 1]
        called == [r EXCEPT !.calls = Append(@, [at |-> t, result |-> result]),
                            !.timer = 0]
    IN IF result.isOk \/ r.attempt > r.maxRetries
       THEN [called EXCEPT !.promise = [state |-> "resolved", value |-> result]]
       ELSE [called EXCEPT !.attempt = @ + 1,
                           !.timer = t + r.delay * (r.attempt + 1)]

\* tryFn() at time t, fn returning Ok (isOk) or Err: the result is resolved
\* when it is Ok or attempt has reached maxRetries; otherwise attempt is
\* incremented and tryFn scheduled after delay * attempt. The result of the
\* n-th call of fn is told from the others by its number
TryFn(r, isOk, t) ==
    LET result == [isOk |-> isOk, call |-> Len(r.calls) + 1]
        called == [r EXCEPT !.calls = Append(@, [at |-> t, result |-> result]),
                            !.timer = 0]
    IN IF result.isOk \/ r.attempt >= r.maxRetries
       THEN [called EXCEPT !.promise = [state |-> "resolved", value |-> result]]
       ELSE [called EXCEPT !.attempt = @ + 1,
                           !.timer = t + r.delay * (r.attempt + 1)]

RetryInit ==
    /\ \E maxRetries \in 0..MaxRetries, delay \in Delays :
          retry = NewRetry(maxRetries, delay)
    /\ ToolsIdleExcept("retry")
    /\ asyncQueue = NewQueue(1)
    /\ LruIdle
    /\ MemoIdle
    /\ FsInit

\* withRetry(fn, maxRetries, delay): the executor of the promise runs tryFn
\* at once
WithRetry(isOk) ==
    /\ retry.pc = "new"
    /\ retry' = [TryFn(retry, isOk, now) EXCEPT !.pc = "called"]
    /\ UNCHANGED <<now, coreVars, exceptRetry>>

\* the timer armed by setTimeout(tryFn, delay * attempt) fires
RetryTimerFire(isOk) ==
    /\ retry.timer # 0
    /\ now >= retry.timer
    /\ retry' = TryFn(retry, isOk, now)
    /\ UNCHANGED <<now, coreVars, exceptRetry>>

\* a millisecond passes before the call or while the timer is armed; the
\* timer fires when its delay has passed
RetryTick ==
    /\ \/ retry.pc = "new" /\ now < MaxTime
       \/ retry.timer # 0 /\ now < retry.timer
    /\ now' = now + 1
    /\ UNCHANGED <<coreVars, toolVars>>

NextRetry ==
    \/ \E isOk \in BOOLEAN : WithRetry(isOk)
    \/ \E isOk \in BOOLEAN : RetryTimerFire(isOk)
    \/ RetryTick

\* the clock runs and an armed timer fires
RetryFairness ==
    /\ WF_vars(RetryTick)
    /\ WF_vars(\E isOk \in BOOLEAN : RetryTimerFire(isOk))

SpecRetry == RetryInit /\ [][NextRetry]_vars /\ RetryFairness

(***************************************************************************)
(* Properties of EnhancedLRUCache                                          *)
(***************************************************************************)
\* the step is a call of set(key, ...)
IsSetStep(key) == ops' = ops + 1 /\ lastOp'.op = "set" /\ lastOp'.key = key

\* the step is a call of get(key)
IsGetStep(key) == ops' = ops + 1 /\ lastOp'.op = "get" /\ lastOp'.key = key

\* the keys the step removed from the Map
RemovedKeys == KeySet(lru.entries) \ KeySet(lru'.entries)

\* C1: with maxSize = N >= 1, after every public operation (get, set, has,
\* delete, clear, cleanup) has returned, the cache stores at most N entries.
CapacityInv == Len(lru.entries) <= lru.maxSize

\* a set() into a full cache has made room and the cache is full again
CapacityWitness ==
    /\ lastOp.op = "set"
    /\ lru.evictions > 0
    /\ Len(lru.entries) = lru.maxSize

\* C2: when set() stores a new key in a full cache, the one entry it removes is
\* the stored entry whose last use (its set, or a get/has that hit) is oldest.
LruEvictionStep ==
    \A key \in Keys :
        (/\ IsSetStep(key)
         /\ ~MapHas(lru.entries, key)
         /\ Len(lru.entries) >= lru.maxSize)
        => /\ useOrder # <<>>
           /\ KeySet(lru'.entries) =
                 (KeySet(lru.entries) \ {Head(useOrder)}) \cup {key}

LruEviction == [][LruEvictionStep]_vars

\* maxSize = 2: after set(a), set(b), a hit on a and set(c), b is gone and
\* a and c are stored
LruEvictionWitness ==
    /\ lru.maxSize = 2
    /\ ops = 4
    /\ lastOp.op = "set"
    /\ lastOp.key = "c"
    /\ KeySeq(lru.entries) = <<"a", "c">>
    /\ MapGet(lru.entries, "a").accessCount = 1
    /\ lru.evictions = 1

\* C3: a get(k) of an entry with now - timestamp > ttl returns undefined, is
\* counted as a miss and not as a hit, and leaves k absent from the Map.
ExpiredGetStep ==
    \A key \in Keys :
        (/\ IsGetStep(key)
         /\ MapHas(lru.entries, key)
         /\ now - MapGet(lru.entries, key).timestamp
               > MapGet(lru.entries, key).ttl)
        => /\ lastOp'.ret = Undefined
           /\ lru'.misses = lru.misses + 1
           /\ lru'.hits = lru.hits
           /\ ~MapHas(lru'.entries, key)

ExpiredGetIsMiss == [][ExpiredGetStep]_vars

\* set(k, "v1", 1) and then, more than 1 ms later, get(k): a miss that
\* emptied the Map
ExpiredGetWitness ==
    /\ ops = 2
    /\ lastOp.op = "get"
    /\ stored[lastOp.key].value = "v1"
    /\ now - stored[lastOp.key].at > stored[lastOp.key].ttl
    /\ lastOp.ret = Undefined
    /\ lru.misses = 1
    /\ lru.entries = <<>>

\* the last step is a get(k) of a key that a set() stored and that no
\* eviction, delete, replacement or clear() has removed since
GetOfStored == lastOp.op = "get" /\ stored[lastOp.key].at >= 0

\* C4 as stated: an entry stored at t0 with ttl T is returned by get at
\* t0 + t for every t < T and is not returned for every t >= T.
TtlWindowAsClaimed ==
    GetOfStored =>
        lastOp.ret = IF now - stored[lastOp.key].at < stored[lastOp.key].ttl
                     THEN stored[lastOp.key].value
                     ELSE Undefined

\* C4 amended: an entry stored at t0 with ttl T is returned by get at t0 + t
\* for every t <= T and is not returned for every t > T, however many gets
\* happened in between.
TtlWindow ==
    GetOfStored =>
        lastOp.ret = IF now - stored[lastOp.key].at <= stored[lastOp.key].ttl
                     THEN stored[lastOp.key].value
                     ELSE Undefined

\* a second get, exactly ttl after the set, still returns the value
TtlWindowWitness ==
    /\ GetOfStored
    /\ stored[lastOp.key].ttl > 0
    /\ now - stored[lastOp.key].at = stored[lastOp.key].ttl
    /\ lastOp.ret = "v1"
    /\ MapGet(lru.entries, lastOp.key).accessCount = 2

\* C9: hits + misses equals the number of calls of get() since the last
\* clear() (or the construction); the get() that has() makes is one of them.
MetricsCountGets == lru.hits + lru.misses = getCalls

\* a hit has been counted, and the last get() was a miss on an expired entry
MetricsCountGetsWitness ==
    /\ lru.hits >= 1
    /\ lru.misses >= 1
    /\ lastOp.op = "get"
    /\ lastOp.ret = Undefined
    /\ stored[lastOp.key].at >= 0
    /\ now - stored[lastOp.key].at > stored[lastOp.key].ttl

\* C10: evictions grows by exactly 1 in every set() that removes another
\* key's entry, and is left as it is by every other removal: expiry in get or
\* has, cleanup, delete, and the replacement of a stored key by set().
EvictionCountStep ==
    IF ops' = ops + 1 /\ lastOp'.op = "set" /\ RemovedKeys # {}
    THEN /\ lru'.evictions = lru.evictions + 1
         /\ Cardinality(RemovedKeys) = 1
         /\ Len(lru.entries) >= lru.maxSize
    ELSE IF ops' = ops + 1 /\ lastOp'.op = "clear"
    THEN lru'.evictions = 0
    ELSE lru'.evictions = lru.evictions

EvictionCount == [][EvictionCountStep]_vars

\* maxSize + 1 sets of distinct keys: the last one evicted
EvictionCountWitness ==
    /\ ops = lru.maxSize + 1
    /\ lastOp.op = "set"
    /\ Len(lru.entries) = lru.maxSize
    /\ lru.evictions = 1

\* every operation so far was a set() of a key the Map did not hold
OnlyNewKeySets == Len(lru.entries) + lru.evictions = ops

\* C11: with maxSize = N, after N or more set() calls of pairwise distinct
\* keys and nothing else, the size is exactly N after each such set(): a
\* set() of a new key into a full cache removes exactly one entry, and into
\* a cache that is not full it removes none.
SizeAfterOverflowStep ==
    \A key \in Keys :
        (IsSetStep(key) /\ ~MapHas(lru.entries, key))
        => IF Len(lru.entries) >= lru.maxSize
           THEN /\ Cardinality(RemovedKeys) = 1
                /\ Len(lru'.entries) = Len(lru.entries)
           ELSE /\ RemovedKeys = {}
                /\ Len(lru'.entries) = Len(lru.entries) + 1

SizeAfterOverflow ==
    /\ []((OnlyNewKeySets /\ ops >= lru.maxSize)
             => Len(lru.entries) = lru.maxSize)
    /\ [][SizeAfterOverflowStep]_vars

\* maxSize = 1 and three sets of new keys: two overflows, one entry
SizeAfterOverflowWitness ==
    /\ OnlyNewKeySets
    /\ ops = 3
    /\ lru.maxSize = 1
    /\ lru.evictions = 2
    /\ Len(lru.entries) = 1

\* C12 as stated: no cache instance has a maxSize or a defaultTtl that is zero
\* or negative (the constructor fails with a configuration error instead),
\* and no entry is stored under a ttl that is zero or negative.
ConfigRejectedAsClaimed ==
    /\ lru.maxSize > 0
    /\ lru.defaultTtl > 0
    /\ \A i \in 1..Len(lru.entries) : lru.entries[i].ttl > 0

\* C18: set(k, v) of a stored key k replaces its entry by a new one (value
\* v, timestamp = now, accessCount = 0) at the most recently used end, keeps
\* every other entry and their order even when the cache is full, and leaves
\* evictions as it is.
ReplaceStep ==
    \A key \in Keys :
        (IsSetStep(key) /\ MapHas(lru.entries, key))
        => LET new == lru'.entries[Len(lru'.entries)] IN
              /\ lru'.entries =
                    Append(MapDelete(lru.entries, key), new)
              /\ new.key = key
              /\ new.value = stored'[key].value
              /\ new.timestamp = now
              /\ new.lastAccessed = now
              /\ new.accessCount = 0
              /\ lru'.evictions = lru.evictions
              /\ lru'.hits = lru.hits
              /\ lru'.misses = lru.misses

ReplaceKeepsOthers == [][ReplaceStep]_vars

\* a full cache of two: the first key, already read once, is set again later
\* with another value and is now the last one, unread
ReplaceKeepsOthersWitness ==
    /\ lastOp.op = "set"
    /\ lastOp.replaced
    /\ Len(lru.entries) = 2
    /\ lru.maxSize = 2
    /\ lru.evictions = 0
    /\ lru.hits = 1
    /\ lru.entries[2].key = lastOp.key
    /\ lru.entries[2].value = Undefined
    /\ lru.entries[2].accessCount = 0
    /\ lru.entries[2].timestamp > lru.entries[1].timestamp

\* C19: a set() of a new key into a full cache removes the first entry of
\* the recency order and no other, whether or not that entry or any other
\* one has expired.
EvictsFirstStep ==
    \A key \in Keys :
        (/\ IsSetStep(key)
         /\ ~MapHas(lru.entries, key)
         /\ Len(lru.entries) >= lru.maxSize
         /\ lru.entries # <<>>)
        => /\ Tail(lru.entries) =
                 SubSeq(lru'.entries, 1, Len(lru'.entries) - 1)
           /\ lru'.entries[Len(lru'.entries)].key = key

EvictsFirstNotExpired == [][EvictsFirstStep]_vars

\* a full cache of two whose second entry had expired and whose first had
\* not: set() of a third key removed the first and kept the expired one
EvictsFirstNotExpiredWitness ==
    /\ lastOp.op = "set"
    /\ lru.maxSize = 2
    /\ lru.evictions = 1
    /\ Len(lru.entries) = 2
    /\ IsExpired(lru.entries[1], now)
    /\ lru.entries[1].timestamp < now
    /\ lru.entries[2].key = lastOp.key
    /\ lru.entries[2].timestamp = now
    /\ ops = 3

\* C20: a get(k) that hits adds 1 to hits and to the entry's accessCount,
\* sets its lastAccessed to now, moves it to the most recently used end and
\* changes nothing else: not its value, timestamp or ttl, not the other
\* entries or their order, not misses, evictions, maxSize or defaultTtl.
GetHitStep ==
    \A key \in Keys :
        (/\ IsGetStep(key)
         /\ MapHas(lru.entries, key)
         /\ ~IsExpired(MapGet(lru.entries, key), now))
        => LET entry == MapGet(lru.entries, key) IN
              /\ lru' = [lru EXCEPT
                            !.hits = @ + 1,
                            !.entries = Append(MapDelete(@, key),
                                [entry EXCEPT !.accessCount = @ + 1,
                                              !.lastAccessed = now])]
              /\ lastOp'.ret = entry.value

GetHitFrame == [][GetHitStep]_vars

\* a get, later than the sets, of the first of two entries: it is now the
\* last one, read once
GetHitFrameWitness ==
    /\ lastOp.op = "get"
    /\ lastOp.ret = "v1"
    /\ Len(lru.entries) = 2
    /\ lru.entries[2].key = lastOp.key
    /\ lru.entries[2].accessCount = 1
    /\ lru.entries[2].lastAccessed = now
    /\ lru.entries[2].timestamp < lru.entries[1].timestamp
    /\ lru.hits = 1

\* the step is a call of has(key)
IsHasStep(key) == ops' = ops + 1 /\ lastOp'.op = "has" /\ lastOp'.key = key

\* C21 as stated: has(k) returns true exactly when an entry of k is stored
\* and has not expired, whatever value it holds, and changes the cache as
\* get(k) does.
HasStep ==
    \A key \in Keys :
        IsHasStep(key)
        => /\ lastOp'.ret = (/\ MapHas(lru.entries, key)
                             /\ now - MapGet(lru.entries, key).timestamp
                                   <= MapGet(lru.entries, key).ttl)
           /\ lru' = CacheGet(lru, key, now).cache

HasAsClaimed == [][HasStep]_vars

\* C22: after h hits and m misses since the last clear() (or the
\* construction), getMetrics() reports hits = h, misses = m, hitRate =
\* h / (h + m), or 0 when h + m = 0, size = the number of stored entries and
\* maxSize = the capacity of the cache.
MetricsReport ==
    LET m  == GetMetrics(lru)
        h  == hitCalls
        ms == getCalls - hitCalls
    IN /\ m.hits = h
       /\ m.misses = ms
       /\ m.hitRate.den > 0
       /\ IF h + ms = 0
          THEN m.hitRate.num = 0
          ELSE m.hitRate.num * (h + ms) = h * m.hitRate.den
       /\ m.size = Cardinality(KeySet(lru.entries))
       /\ m.maxSize = lru.maxSize

\* two hits and a miss, one entry stored: the hit rate is 2/3
MetricsReportWitness ==
    /\ hitCalls = 2
    /\ getCalls = 3
    /\ Len(lru.entries) = 1
    /\ GetMetrics(lru).hitRate = Ratio(2, 3)

\* the place of key in the Map's order
Pos(entries, key) == CHOOSE i \in 1..Len(entries) : entries[i].key = key

\* C23: cleanup() removes every entry with now - timestamp > ttl and no
\* other entry (never one that was just stored), returns the number of
\* entries it removed, and leaves the counters and the order of the entries
\* it keeps as they are.
CleanupStep ==
    (ops' = ops + 1 /\ lastOp'.op = "cleanup")
    => LET old == lru.entries
           new == lru'.entries
       IN /\ \A i \in 1..Len(old) :
                (now - old[i].timestamp > old[i].ttl)
                <=> ~(\E j \in 1..Len(new) : new[j] = old[i])
          /\ \A j \in 1..Len(new) : \E i \in 1..Len(old) : new[j] = old[i]
          /\ \A j1, j2 \in 1..Len(new) :
                j1 < j2 => Pos(old, new[j1].key) < Pos(old, new[j2].key)
          /\ lastOp'.ret = Len(old) - Len(new)
          /\ lru'.hits = lru.hits
          /\ lru'.misses = lru.misses
          /\ lru'.evictions = lru.evictions

CleanupRemovesExpired == [][CleanupStep]_vars

\* two sets and a cleanup(), which removed the entry that had expired and
\* kept the other
CleanupRemovesExpiredWitness ==
    /\ lastOp.op = "cleanup"
    /\ lastOp.ret = 1
    /\ Len(lru.entries) = 1
    /\ ops = 3
    /\ getCalls = 0

\* C24 as stated: a cache constructed with cleanupInterval = 0 has no
\* cleanup timer, and one constructed with a positive cleanupInterval has a
\* running timer until dispose(), whatever enableMetrics is.
TimerAsClaimed ==
    /\ timer.options.cleanupInterval = 0 => ~timer.armed
    /\ (timer.options.cleanupInterval > 0 /\ ~timer.disposed) => timer.armed

\* C28: delete(k) returns true if and only if the Map held an entry of k
\* just before the call; afterwards k is absent and the other entries, their
\* order and the counters are as they were.
DeleteStep ==
    \A key \in Keys :
        (ops' = ops + 1 /\ lastOp'.op = "delete" /\ lastOp'.key = key)
        => /\ lastOp'.ret = (\E i \in 1..Len(lru.entries) :
                                lru.entries[i].key = key)
           /\ \A i \in 1..Len(lru'.entries) : lru'.entries[i].key # key
           /\ lru' = [lru EXCEPT !.entries =
                                    SelectSeq(@, LAMBDA e : e.key # key)]

DeleteFrame == [][DeleteStep]_vars

\* a delete() that returned true, after a hit, took one of two entries
DeleteFrameWitness ==
    /\ lastOp.op = "delete"
    /\ lastOp.ret = TRUE
    /\ Len(lru.entries) = 1
    /\ lru.entries[1].key # lastOp.key
    /\ lru.hits = 1
    /\ ops = 4

\* C29: after clear() the cache holds no entry and hits, misses and
\* evictions are 0, whatever it held before; a get() called next is a miss
\* and leaves hits = 0 and misses = 1.
ClearStep ==
    /\ (ops' = ops + 1 /\ lastOp'.op = "clear")
          => /\ lru'.entries = <<>>
             /\ lru'.hits = 0
             /\ lru'.misses = 0
             /\ lru'.evictions = 0
    /\ \A key \in Keys :
          (IsGetStep(key) /\ lastOp.op = "clear")
          => /\ lastOp'.ret = Undefined
             /\ lru'.hits = 0
             /\ lru'.misses = 1

ClearResets == [][ClearStep]_vars

\* a clear() of a cache that held an entry and had counted a hit and a miss
ClearResetsWitness ==
    /\ lastOp.op = "clear"
    /\ lastOp.hadEntries
    /\ lastOp.hadCounts
    /\ ops = 4
    /\ getCalls = 0
    /\ lru.entries = <<>>
    /\ lru.hits + lru.misses + lru.evictions = 0

(***************************************************************************)
(* Properties of MemoCache                                                 *)
(***************************************************************************)
\* C5: when a call of the memoizeAsync() wrapper is made with the key of a
\* call that is still in flight, the wrapped function is not invoked again
\* and both callers receive the same result.
AsyncDedupAsClaimed ==
    \A c1, c2 \in Callers :
        (/\ callers[c1].started # 0
         /\ callers[c2].sawPending = callers[c1].started)
        => /\ callers[c2].started = 0
           /\ (callers[c1].pc = "done" /\ callers[c2].pc = "done")
                 => callers[c1].ret = callers[c2].ret

\* the step is a call of the memoize() wrapper with argument x
IsSyncCallStep(x) ==
    memoCalls' = memoCalls + 1 /\ lastCall'.op = "call" /\ lastCall'.arg = x

\* the wrapper has invoked syncFn(x) and the entry it stored then has not
\* outlived its ttl, nor has clear() been called since
InTtlWindow(x) ==
    /\ window[x].at >= 0
    /\ now - window[x].at <= OrElse(syncTtl, memo.defaultTtl)

\* C6: a call of the memoize() wrapper with an argument x for which the
\* wrapper has invoked the function within the TTL window does not invoke it
\* again and returns the value the earlier call returned, whatever the
\* function returns.
MemoizeOnceStep ==
    \A x \in Args :
        (IsSyncCallStep(x) /\ InTtlWindow(x))
        => /\ syncInvoked'[x] = syncInvoked[x]
           /\ lastCall'.ret = window[x].ret

MemoizeOnceAsClaimed == [][MemoizeOnceStep]_vars

\* the promise the wrapped async function returned last for key k was rejected
LastRejected(k) ==
    LET ps == {p \in 1..Len(promises) : promises[p].key = k} IN
       /\ ps # {}
       /\ promises[CHOOSE p \in ps : \A q \in ps : q <= p].state = "rejected"

\* C14 as stated: when the promise of the function memoizeAsync() wraps
\* rejects, every caller awaiting it receives the rejection, nothing is
\* stored in the cache and the pending marker of the key is removed; the next
\* call of the wrapper with that key invokes the wrapped function again.
AsyncRejectStep ==
    /\ \A p \in 1..Len(promises) :
          (promises[p].state = "pending" /\ promises'[p].state = "rejected")
          => /\ \A c \in Callers :
                   (callers[c].pc = "waiting" /\ callers[c].awaiting = p)
                   => callers'[c].pc = "done" /\ callers'[c].ret = Rejected
             /\ memo' = memo
             /\ pendingCache'[promises[p].key] = 0
    /\ \A c \in Callers :
          (/\ callers[c].pc = "idle"
           /\ callers'[c].pc # "idle"
           /\ LastRejected(KeyOf(callers'[c].arg)))
          => callers'[c].started # 0

AsyncRejectAsClaimed == [][AsyncRejectStep]_vars

\* C15 as stated: when the function memoize() wraps throws, the caller gets
\* the exception and the call stores no entry; the next call of the wrapper
\* with the same key invokes the function again.
MemoizeThrowStep ==
    \A x \in Args :
        IsSyncCallStep(x)
        => /\ (syncInvoked'[x] > syncInvoked[x] /\ syncFn[x] = Thrown)
                 => /\ lastCall'.ret = Thrown
                    /\ memo' = CacheGet(memo, KeyOf(x), now).cache
           /\ (lastCall.op = "call" /\ lastCall.arg = x /\ lastCall.ret = Thrown)
                 => syncInvoked'[x] = syncInvoked[x] + 1

MemoizeThrowAsClaimed == [][MemoizeThrowStep]_vars

\* the invocations of the wrapped async function for key k that have not
\* settled
InFlight(k) ==
    {p \in 1..Len(promises) :
        promises[p].key = k /\ promises[p].state \notin {"resolved", "rejected"}}

\* C25: the pendingCache Map of a memoizeAsync() wrapper holds a marker for
\* key k exactly while an invocation of the wrapped function for k that the
\* wrapper started has not settled, and the marker is that invocation's
\* promise; with no invocation in flight the Map is empty.
PendingMarkerInv ==
    \A k \in Args :
        IF pendingCache[k] = 0
        THEN InFlight(k) = {}
        ELSE InFlight(k) = {pendingCache[k]}

\* the first invocation for a key was rejected and its marker removed, and a
\* second one for the same key is in flight under its own marker
PendingMarkerWitness ==
    /\ Len(promises) = 2
    /\ promises[1].state = "rejected"
    /\ promises[2].state = "pending"
    /\ promises[2].key = promises[1].key
    /\ pendingCache[promises[2].key] = 2

\* C26 as stated: when an invocation in flight is cancelled and never
\* settles, its pending marker is cleared all the same, so no caller of the
\* wrapper is left awaiting the abandoned invocation.
CancelClearsMarkerAsClaimed ==
    /\ \A k \in Args :
          pendingCache[k] # 0 => promises[pendingCache[k]].state # "abandoned"
    /\ \A c \in Callers :
          callers[c].pc = "waiting"
          => promises[callers[c].awaiting].state # "abandoned"

(***************************************************************************)
(* Properties of CachedFileSystem                                          *)
(***************************************************************************)
\* the step is a call readFileWithCache(path, false) by task r
IsCachedReadStep(r, path) ==
    /\ reads' = reads + 1
    /\ fsLast'.op = "call"
    /\ fsLast'.reader = r
    /\ readers'[r].op = "read"
    /\ readers'[r].path = path
    /\ ~readers'[r].force

\* C7: once readFileWithCache(p) has stored the content of p, a call of
\* invalidateCache(p) leaves p in neither cache, and the next
\* readFileWithCache(p, false) invokes the accessor.
InvalidateStep ==
    \A path \in Paths :
        /\ (fsLast'.op = "invalidate" /\ fsLast'.path = path /\ populated[path])
              => /\ ~MapHas(fileCache'.entries, path)
                 /\ ~MapHas(statCache'.entries, path)
        /\ \A r \in Readers :
              (IsCachedReadStep(r, path) /\ awaitsRead[path])
              => readers'[r].pc = "reading"

InvalidateAsClaimed == [][InvalidateStep]_vars

\* C8: a readFileWithCache(p, false) that is called after p was changed and
\* invalidateCache(p) has run for that change does not return the content p
\* had before the change.
NoStaleReadAsClaimed ==
    \A r \in Readers :
        (/\ readers[r].pc = "done"
         /\ readers[r].op = "read"
         /\ ~readers[r].force
         /\ readers[r].ret # AccessorError
         /\ readers[r].after >= 1)
        => VersionOf(readers[r].ret) >= readers[r].after

\* the step is a call by task r of readFileWithCache (op = "read") or
\* statWithCache (op = "stat") for path
IsCallStep(r, op, path) ==
    /\ reads' = reads + 1
    /\ fsLast'.op = "call"
    /\ fsLast'.reader = r
    /\ readers'[r].op = op
    /\ readers'[r].path = path

\* the step is the return of the call of task r after its await
IsReturnStep(r) == readers[r].pc = "resolved" /\ readers'[r].pc = "done"

\* the last step was the return of a call op for path whose accessor failed
FailedReturnBefore(op, path) ==
    /\ fsLast.op = "return"
    /\ fsLast.path = path
    /\ readers[fsLast.reader].op = op
    /\ readers[fsLast.reader].ret = AccessorError

\* the cache holds an entry of path that has not expired
Live(cache, path) ==
    /\ MapHas(cache.entries, path)
    /\ ~IsExpired(MapGet(cache.entries, path), now)

\* the cache that readFileWithCache (op = "read") or statWithCache reads
CacheOf(op) == IF op = "read" THEN fileCache ELSE statCache

\* a call whose accessor failed returns the error and leaves both caches as
\* they are
FailureNotCachedStep ==
    /\ fsLast'.op = "reject" => fileCache' = fileCache /\ statCache' = statCache
    /\ \A r \in Readers :
          (IsReturnStep(r) /\ readers[r].got = AccessorError)
          => /\ readers'[r].ret = AccessorError
             /\ fileCache' = fileCache
             /\ statCache' = statCache

\* C13 as stated: when the accessor fails, the call returns the error and
\* leaves both caches as they were, and the next call for the path invokes
\* the accessor again.
AccessorFailureStepAsClaimed ==
    /\ FailureNotCachedStep
    /\ \A r \in Readers, op \in {"read", "stat"}, path \in Paths :
          (IsCallStep(r, op, path) /\ FailedReturnBefore(op, path))
          => readers'[r].pc = "reading"

AccessorFailureAsClaimed == [][AccessorFailureStepAsClaimed]_vars

\* C13 amended: when the accessor fails, the call returns the error and
\* leaves both caches as they were; the next call for the path invokes the
\* accessor again if it forces a refresh or its cache holds no live entry of
\* the path, and returns that entry otherwise.
AccessorFailureStep ==
    /\ FailureNotCachedStep
    /\ \A r \in Readers, op \in {"read", "stat"}, path \in Paths :
          (IsCallStep(r, op, path) /\ FailedReturnBefore(op, path))
          => IF readers'[r].force \/ ~Live(CacheOf(op), path)
             THEN readers'[r].pc = "reading"
             ELSE /\ readers'[r].pc = "done"
                  /\ readers'[r].ret = MapGet(CacheOf(op).entries, path).value

AccessorFailure == [][AccessorFailureStep]_vars

\* the only two calls so far: one task's unforced read failed and returned
\* the error, then the other task read the same path and is awaiting the
\* accessor; nothing is cached
AccessorFailureWitness ==
    \E r1, r2 \in Readers :
        /\ r1 # r2
        /\ reads = 2
        /\ readers[r1].pc = "done"
        /\ readers[r1].op = "read"
        /\ ~readers[r1].force
        /\ readers[r1].ret = AccessorError
        /\ fsLast.op = "call"
        /\ fsLast.reader = r2
        /\ readers[r2].pc = "reading"
        /\ readers[r2].op = "read"
        /\ readers[r2].path = readers[r1].path
        /\ ~readers[r2].force
        /\ fileCache.entries = <<>>
        /\ statCache.entries = <<>>

\* C16: readFileWithCache(p, false) returns the cached content and does not
\* invoke the accessor when the content cache holds a live entry of p;
\* otherwise it invokes the accessor, once, and on its return stores a
\* successful result in the content cache if and only if p has a cacheable
\* extension or path pattern.
ReadThroughStep ==
    \A r \in Readers :
        /\ \A path \in Paths :
              (IsCallStep(r, "read", path) /\ ~readers'[r].force)
              => IF Live(fileCache, path)
                 THEN /\ readers'[r].pc = "done"
                      /\ readers'[r].ret = MapGet(fileCache.entries, path).value
                 ELSE readers'[r].pc = "reading"
        /\ readers[r].pc = "reading" => readers'[r].pc \in {"reading", "resolved"}
        /\ readers[r].pc = "resolved" => readers'[r].pc \in {"resolved", "done"}
        /\ (IsReturnStep(r) /\ readers[r].op = "read")
              => /\ readers'[r].ret = readers[r].got
                 /\ IF /\ readers[r].got # AccessorError
                       /\ \/ readers[r].path.ext \in CacheableExtensions
                          \/ readers[r].path.stem \in CacheablePaths
                    THEN /\ Live(fileCache', readers[r].path)
                         /\ MapGet(fileCache'.entries, readers[r].path).value
                               = readers[r].got
                    ELSE fileCache' = fileCache

ReadThrough == [][ReadThroughStep]_vars

\* three reads: a cacheable path was read, stored and then served from the
\* cache, and a path that is not cacheable was read and not stored
ReadThroughWitness ==
    \E r \in Readers :
        /\ reads = 3
        /\ fileCache.hits = 1
        /\ fsLast.op = "return"
        /\ fsLast.reader = r
        /\ readers[r].op = "read"
        /\ ~ShouldCache(readers[r].path)
        /\ readers[r].ret = Content[1]
        /\ KeySet(fileCache.entries) = {p \in Paths : ShouldCache(p)}

\* C17: readFileWithCache(p, true) does not look in the cache: it always
\* invokes the accessor, and returns what the accessor gave, its error
\* included, even while the content cache holds a live entry of p.
ForceRefreshStep ==
    \A r \in Readers :
        /\ \A path \in Paths :
              (IsCallStep(r, "read", path) /\ readers'[r].force)
              => /\ readers'[r].pc = "reading"
                 /\ fileCache' = fileCache
        /\ (IsReturnStep(r) /\ readers[r].op = "read" /\ readers[r].force)
              => readers'[r].ret = readers[r].got

ForceRefresh == [][ForceRefreshStep]_vars

\* a forced read has just returned the accessor's error while the content
\* cache holds a live entry of the path
ForceRefreshWitness ==
    \E r \in Readers :
        /\ fsLast.op = "return"
        /\ fsLast.reader = r
        /\ readers[r].op = "read"
        /\ readers[r].force
        /\ readers[r].ret = AccessorError
        /\ Live(fileCache, readers[r].path)

\* the paths of which cache holds an entry that has not expired at time t
LivePaths(cache, t) ==
    {cache.entries[i].key :
        i \in {j \in 1..Len(cache.entries) : ~IsExpired(cache.entries[j], t)}}

\* the paths of which cache holds an entry that has expired at time t
ExpiredPaths(cache, t) ==
    {cache.entries[i].key :
        i \in {j \in 1..Len(cache.entries) : IsExpired(cache.entries[j], t)}}

\* the paths the step takes from Cached(value) to Uncached: the content
\* cache held a live entry of them and holds none afterwards
Uncaches == LivePaths(fileCache, now) \ LivePaths(fileCache', now')

\* the step is invalidateCache(path)
IsInvalidateStep(path) == fsLast'.op = "invalidate" /\ fsLast'.path = path

\* the step belongs to a readFileWithCache(path, true): its call or its
\* return after the accessor's answer
IsForcedReadStep(path) ==
    \E r \in Readers :
        /\ IsCallStep(r, "read", path) \/ IsReturnStep(r)
        /\ readers'[r].op = "read"
        /\ readers'[r].path = path
        /\ readers'[r].force

\* the step is the return of a readFileWithCache of another path that is
\* not in the full content cache, and path is the first entry of the Map
IsEvictionStep(path) ==
    \E r \in Readers :
        /\ IsReturnStep(r)
        /\ readers[r].op = "read"
        /\ readers[r].path # path
        /\ readers[r].got # AccessorError
        /\ \A i \in 1..Len(fileCache.entries) :
              fileCache.entries[i].key # readers[r].path
        /\ Len(fileCache.entries) = FILE_CACHE_MAX_SIZE
        /\ fileCache.entries[1].key = path
        /\ fileCache'.evictions = fileCache.evictions + 1

\* the step is clearCaches()
IsClearCachesStep == fsLast'.op = "clearCaches"

\* C27 as stated: the content cache's entry of a path p goes from Cached
\* to Uncached only by invalidateCache(p), by the expiry of its ttl or by a
\* forced refresh of p; nothing done for another path uncaches p.
CachedToUncachedAsClaimedStep ==
    LET expired == ExpiredPaths(fileCache', now') IN
    \A p \in Uncaches :
        \/ IsInvalidateStep(p)
        \/ p \in expired
        \/ IsForcedReadStep(p)

CachedToUncachedStep ==
    LET expired == ExpiredPaths(fileCache', now') IN
    \A p \in Uncaches :
        /\ \/ IsInvalidateStep(p)
           \/ p \in expired
           \/ IsClearCachesStep
           \/ IsEvictionStep(p)
        /\ ~IsForcedReadStep(p)

Unfinished == {t \in QueueTasks : asyncQueue.tasks[t] = "running"}

\* the tasks that hold a slot: started, and process() has not yet run its
\* finally block for them
Holding ==
    {t \in QueueTasks : asyncQueue.tasks[t] \in {"running", "resolved", "rejected"}}

\* C30: the number of tasks that have started and not yet finished never
\* exceeds the concurrency of the queue, for every order of add calls and of
\* tasks resolving or rejecting; running counts the slots that are held.
ConcurrencyLimit ==
    /\ Cardinality(Unfinished) <= asyncQueue.concurrency
    /\ Cardinality(Holding) = asyncQueue.running
    /\ asyncQueue.running <= asyncQueue.concurrency

\* both slots of a queue of two are taken, after a task has finished and
\* freed its slot, and another task waits in the queue
ConcurrencyLimitWitness ==
    /\ asyncQueue.concurrency = 2
    /\ Cardinality(Unfinished) = 2
    /\ asyncQueue.queue # <<>>
    /\ \E t \in QueueTasks : asyncQueue.tasks[t] = "done"

\* s is a sequence without repetition
NoRepeat(s) == \A i, j \in 1..Len(s) : s[i] = s[j] => i = j

\* every task is started at most once, the tasks are started in the order
\* they were added, a task not started waits in the queue, and the promise
\* of add() settles as the task's own promise did
QueueOrder ==
    /\ NoRepeat(asyncQueue.started)
    /\ Len(asyncQueue.started) <= Len(asyncQueue.added)
    /\ asyncQueue.started = SubSeq(asyncQueue.added, 1, Len(asyncQueue.started))
    /\ asyncQueue.queue = SubSeq(asyncQueue.added, Len(asyncQueue.started) + 1,
                                 Len(asyncQueue.added))
    /\ \A t \in QueueTasks : asyncQueue.promise[t] = asyncQueue.outcome[t]

\* C31: every task added to an AsyncQueue is started exactly once, in the
\* order of the add calls; if every started task settles, every added task
\* is started and the promise add() returned settles with the task's own
\* outcome, also after tasks that failed.
QueueServes ==
    /\ []QueueOrder
    /\ \A t \in QueueTasks :
          (asyncQueue.tasks[t] # NewTask)
          ~> (/\ \E i \in 1..Len(asyncQueue.started) : asyncQueue.started[i] = t
              /\ asyncQueue.promise[t] # PendingPromise
              /\ asyncQueue.promise[t] = asyncQueue.outcome[t])

\* a queue of one slot has served four tasks in the order added; the first
\* failed and the ones after it ran, one resolving and one failing
QueueServesWitness ==
    /\ asyncQueue.concurrency = 1
    /\ Len(asyncQueue.started) = 4
    /\ asyncQueue.started = asyncQueue.added
    /\ asyncQueue.promise[asyncQueue.added[1]] = "rejected"
    /\ asyncQueue.promise[asyncQueue.added[2]] = "resolved"
    /\ asyncQueue.promise[asyncQueue.added[4]] = "rejected"
    /\ \A t \in QueueTasks : asyncQueue.tasks[t] = "done"

(***************************************************************************)
(* Properties of BatchProcessor                                            *)
(***************************************************************************)
RECURSIVE Concat(_)
\* the items of a sequence of batches, in order
Concat(batches) ==
    IF batches = <<>>
    THEN <<>>
    ELSE Concat(SubSeq(batches, 1, Len(batches) - 1))
         \o batches[Len(batches)].items

\* the items passed to processFn and then the pending ones are the items
\* added, each once and in the order added; no batch is empty; fewer than
\* maxBatchSize items are pending and then the timer armed for the first of
\* them is the one armed; a batch the timer flushed was flushed maxWaitTime
\* after its first item was added
BatchOrder ==
    LET all == Concat(batcher.processed) \o batcher.items IN
    /\ Len(all) = batcher.added
    /\ \A i \in 1..Len(all) : all[i].id = i
    /\ \A i \in 1..Len(batcher.processed) : batcher.processed[i].items # <<>>
    /\ Len(batcher.items) < batcher.maxBatchSize
    /\ batcher.items # <<>>
          => batcher.timers = {[id |-> batcher.timeout,
                                at |-> batcher.items[1].at + batcher.maxWaitTime]}
    /\ batcher.items = <<>> => batcher.timers = {}
    /\ \A i \in 1..Len(batcher.processed) :
          LET batch == batcher.processed[i] IN
          /\ batch.by = "size" => Len(batch.items) = batcher.maxBatchSize
          /\ batch.by = "timer"
                => batch.at = batch.items[1].at + batcher.maxWaitTime

\* C32: every item added to a BatchProcessor is passed to processFn exactly
\* once and in the order added, at once when maxBatchSize items are pending
\* and otherwise when maxWaitTime has passed since the first item of the
\* batch; a timer is armed whenever items are pending, and no batch is empty.
BatchDelivers ==
    /\ []BatchOrder
    /\ \A n \in 1..MaxItems :
          (batcher.added >= n)
          ~> (\E i \in 1..Len(batcher.processed) :
                \E j \in 1..Len(batcher.processed[i].items) :
                   batcher.processed[i].items[j].id = n)

\* a batch flushed by size and, after it, one flushed by the timer
BatchDeliversWitness ==
    /\ Len(batcher.processed) = 2
    /\ batcher.maxBatchSize = 2
    /\ batcher.processed[1].by = "size"
    /\ batcher.processed[2].by = "timer"
    /\ Len(batcher.processed[2].items) = 1
    /\ batcher.items = <<>>

(***************************************************************************)
(* Properties of debounce                                                  *)
(***************************************************************************)
\* call i is followed, less than wait later, by another call
InBurst(i) ==
    /\ i < Len(debounced.calls)
    /\ debounced.calls[i + 1].at - debounced.calls[i].at < debounced.wait

\* the executions of func with the arguments of call i
ExecutionsOf(i) ==
    {j \in 1..Len(debounced.executions) : debounced.executions[j].args = i}

\* a call followed by another less than wait later is never executed; the
\* arguments of any other call are executed at most once, wait after the
\* call, and until then the timer of the last call is the one armed
DebounceOnce ==
    \A i \in 1..Len(debounced.calls) :
        /\ InBurst(i) => ExecutionsOf(i) = {}
        /\ Cardinality(ExecutionsOf(i)) <= 1
        /\ \A j \in ExecutionsOf(i) :
              debounced.executions[j].at = debounced.calls[i].at + debounced.wait
        /\ (i = Len(debounced.calls) /\ ExecutionsOf(i) = {})
              => /\ debounced.timers =
                      {[id |-> debounced.timeout,
                        at |-> debounced.calls[i].at + debounced.wait,
                        args |-> i]}
                 /\ now <= debounced.calls[i].at + debounced.wait

\* C33: a burst of calls of a debounced function, each less than wait after
\* the one before, executes func for none of the calls but the last, and
\* executes it exactly once, wait after the last call and with the arguments
\* of the last call.
DebounceBurst ==
    /\ []DebounceOnce
    /\ \A n \in 1..MaxCalls :
          (Len(debounced.calls) = n)
          ~> (\/ Len(debounced.calls) > n
              \/ Cardinality(ExecutionsOf(n)) = 1)

\* a burst of three calls at different times, executed once with the
\* arguments of the third
DebounceBurstWitness ==
    /\ debounced.wait = 2
    /\ Len(debounced.calls) = 3
    /\ debounced.calls[2].at = debounced.calls[1].at + 1
    /\ debounced.calls[3].at = debounced.calls[2].at + 1
    /\ debounced.executions = <<[args |-> 3, at |-> debounced.calls[3].at + 2]>>

(***************************************************************************)
(* Properties of throttle                                                  *)
(***************************************************************************)
\* the calls before call i that executed func
ExecutedBefore(i) == {j \in 1..(i - 1) : throttled.calls[j].executed}

\* the time of the last execution of func before call i
LastExecutionBefore(i) ==
    throttled.calls[CHOOSE j \in ExecutedBefore(i) :
                       \A k \in ExecutedBefore(i) : k <= j].at

IsPlainOverflowStep ==
    /\ plainLru'.ops = plainLru.ops + 1
    /\ plainLru'.last.op = "set"
    /\ ~MapHas(plainLru.entries, plainLru'.last.key)
    /\ Len(plainLru.entries) >= plainLru.maxSize

\* the step is a has()
IsPlainHasStep ==
    /\ plainLru'.ops = plainLru.ops + 1
    /\ plainLru'.last.op = "has"

\* C35 as stated: the size of the plain LRUCache never exceeds maxSize; a
\* set of a new key into a full cache removes the key whose most recent set
\* or get that found it is the oldest, and no other; has(k) reports whether
\* k is present and changes neither the Map nor its order.
PlainLruAsClaimedStep ==
    /\ Len(plainLru'.entries) <= plainLru'.maxSize
    /\ IsPlainOverflowStep
          => KeySet(plainLru.entries) \ KeySet(plainLru'.entries)
                = {Head(plainLru.useOrder)}
    /\ IsPlainHasStep
          => /\ plainLru'.entries = plainLru.entries
             /\ plainLru'.last.ret =
                   (IF plainLru'.last.key \in KeySet(plainLru.entries)
                    THEN "true" ELSE "false")

PlainLruAsClaimed == [][PlainLruAsClaimedStep]_vars

(***************************************************************************)
(* Properties of ObjectPool                                                *)
(***************************************************************************)
\* the elements of the pool array
Pooled(p) == {p.pool[i] : i \in 1..Len(p.pool)}

\* the element of the pool array that was released last
LastReleased(p) == CHOOSE e \in Pooled(p) : \A x \in Pooled(p) : x.at <= e.at

\* a release into a full pool leaves the pool as it is; an acquire from a
\* pool that is not empty takes the element released last out of the pool,
\* returns its object and does not call createFn
PoolStep ==
    /\ (pool'.ops = pool.ops + 1 /\ pool'.last.op = "release"
          /\ Len(pool.pool) >= pool.maxSize)
          => pool'.pool = pool.pool
    /\ (pool'.ops = pool.ops + 1 /\ pool'.last.op = "acquire"
          /\ pool.pool # <<>>)
          => /\ pool'.last.obj = LastReleased(pool).obj
             /\ Pooled(pool') = Pooled(pool) \ {LastReleased(pool)}
             /\ pool'.created = pool.created

ConcurrentReadsStep ==
    \A r \in Readers, path \in FsPaths :
        (IsCallStep(r, "read", path) /\ ~readers'[r].force
           /\ ~Live(fileCache, path))
        => /\ readers'[r].pc = "reading"
           /\ ~MapHas(fileCache'.entries, path)
           /\ statCache' = statCache
           /\ \A o \in Readers \ {r} : readers'[o] = readers[o]

LastReturnWins ==
    (fsLast.op = "return" /\ readers[fsLast.reader].op = "read"
       /\ ShouldCache(fsLast.path))
    => /\ Live(fileCache, fsLast.path)
       /\ MapGet(fileCache.entries, fsLast.path).value
             = readers[fsLast.reader].ret

ConcurrentReads == []LastReturnWins /\ [][ConcurrentReadsStep]_vars

\* both tasks called readFileWithCache(p) before either had returned (p was
\* never invalidated, and each got the content of its own read); the file
\* changed between the two reads, the read of the old content returned
\* last and the cache holds the old content
ConcurrentReadsWitness ==
    \E p \in FsPaths :
        /\ reads = 2
        /\ invalidated[p] = -1
        /\ \A r \in Readers :
              /\ readers[r].pc = "done"
              /\ readers[r].op = "read"
              /\ readers[r].path = p
              /\ ~readers[r].force
        /\ readers["r1"].ret = Content[1]
        /\ readers["r2"].ret = Content[2]
        /\ fsLast.op = "return"
        /\ fsLast.reader = "r1"
        /\ MapGet(fileCache.entries, p).value = Content[1]
        /\ fileCache.misses = 2

\* C38 as stated: a function wrapped by memoize() or memoizeAsync() returns
\* what that function computed for its arguments, never a value another
\* memoized function computed, and a call of one wrapper never overwrites
\* or removes an entry the other wrapper stored.
ReturnsOwnValues ==
    /\ lastCall.op = "call" => lastCall.ret \in SyncResults
    /\ \A c \in Callers :
          callers[c].pc = "done" => callers[c].ret \in AsyncResults \cup {Rejected}

KeepsOthersEntries ==
    \A x \in Args :
        LET k == KeyOf(x) IN
           /\ (IsSyncCallStep(x) /\ MapHas(memo.entries, k)
                 /\ MapGet(memo.entries, k).value \in AsyncResults \ SyncResults)
                 => /\ MapHas(memo'.entries, k)
                    /\ MapGet(memo'.entries, k).value = MapGet(memo.entries, k).value
           /\ (promises' # promises /\ MapHas(memo.entries, k)
                 /\ MapGet(memo.entries, k).value \in SyncResults \ AsyncResults)
                 => /\ MapHas(memo'.entries, k)
                    /\ MapGet(memo'.entries, k).value = MapGet(memo.entries, k).value

MemoIsolatedAsClaimed == []ReturnsOwnValues /\ [][KeepsOthersEntries]_vars

\* the calls isAllowed(id) of the log that returned true at a time after lo
\* and not after hi
AllowedIn(l, id, lo, hi) ==
    {i \in 1..Len(l.log) :
        /\ l.log[i].op = "isAllowed"
        /\ l.log[i].id = id
        /\ l.log[i].allowed
        /\ l.log[i].at > lo
        /\ l.log[i].at <= hi}

\* a call isAllowed(id) returns true exactly when fewer than maxRequests of
\* the calls isAllowed(id) made less than windowMs ago returned true: the
\* answer depends neither on denied calls, nor on other identifiers, nor on
\* the calls of cleanup()
LimiterStep ==
    \A id \in Identifiers :
        (/\ Len(limiter'.log) = Len(limiter.log) + 1
         /\ limiter'.log[Len(limiter'.log)].op = "isAllowed"
         /\ limiter'.log[Len(limiter'.log)].id = id)
        => (limiter'.log[Len(limiter'.log)].allowed
              <=> Cardinality(AllowedIn(limiter, id, now - limiter.windowMs, now))
                     < limiter.maxRequests)

\* in every window of windowMs milliseconds at most maxRequests calls of an
\* identifier were allowed
RateLimited ==
    \A id \in Identifiers, t \in 0..LimiterClockEnd :
        Cardinality(AllowedIn(limiter, id, t - limiter.windowMs, t))
           <= limiter.maxRequests

\* C39: isAllowed(id) returns true for at most maxRequests calls of an
\* identifier in any window of windowMs milliseconds; its answer depends only
\* on the calls of that identifier that returned true within the window, so
\* a denied call, a call with another identifier and a cleanup() change no
\* later answer.
RateLimit == []RateLimited /\ [][LimiterStep]_vars

\* alice was allowed once and then denied, bob was allowed while alice was
\* denied, cleanup() removed alice's request once the window had passed,
\* and alice was allowed again
RateLimitWitness ==
    /\ limiter.maxRequests = 1
    /\ limiter.windowMs = 2
    /\ Len(limiter.log) = 5
    /\ limiter.log[1] = [op |-> "isAllowed", id |-> "alice", at |-> 0, allowed |-> TRUE]
    /\ limiter.log[2] = [op |-> "isAllowed", id |-> "alice", at |-> 1, allowed |-> FALSE]
    /\ limiter.log[3] = [op |-> "isAllowed", id |-> "bob", at |-> 1, allowed |-> TRUE]
    /\ limiter.log[4] = [op |-> "cleanup", id |-> Undefined, at |-> 2, allowed |-> FALSE]
    /\ limiter.log[5] = [op |-> "isAllowed", id |-> "alice", at |-> 2, allowed |-> TRUE]
    /\ KeySeq(limiter.requests) = <<"bob", "alice">>

\* fn was called at most maxRetries + 1 times and never after it returned
\* Ok; the k-th retry was made delay * k after the call before it, and an
\* armed timer is due delay * attempt after the last call; the promise is
\* resolved exactly when fn returned Ok or was called maxRetries + 1 times,
\* with the result of the last call
RetryBounded ==
    LET n == Len(retry.calls) IN
       /\ n <= retry.maxRetries + 1
       /\ \A i \in 1..(n - 1) : ~retry.calls[i].result.isOk
       /\ \A k \in 1..(n - 1) :
             retry.calls[k + 1].at - retry.calls[k].at >= retry.delay * k
       /\ retry.timer # 0
             => /\ n > 0
                /\ retry.attempt = n
                /\ retry.timer = retry.calls[n].at + retry.delay * n
       /\ retry.promise.state \in {PendingPromise, "resolved"}
       /\ retry.promise.state = "resolved"
             <=> /\ n > 0
                 /\ retry.calls[n].result.isOk \/ n = retry.maxRetries + 1
       /\ retry.promise.state = "resolved"
             => retry.promise.value = retry.calls[n].result

\* C40: withRetry calls fn at most maxRetries + 1 times and not again after
\* an Ok result, waits delay * k before the k-th retry, and its promise is
\* always resolved, with the first Ok result or else with the result of
\* the last attempt.
RetryResolves ==
    /\ []RetryBounded
    /\ (retry.pc = "called" ~> retry.promise.state = "resolved")

\* fn failed three times with maxRetries 2 and delay 2: it was called when
\* withRetry was, 2 ms later and 4 ms after that, and the promise resolved
\* with the third failure
RetryResolvesWitness ==
    /\ retry.maxRetries = 2
    /\ retry.delay = 2
    /\ Len(retry.calls) = 3
    /\ retry.calls[1].at = 1
    /\ retry.calls[2].at = 3
    /\ retry.calls[3].at = 7
    /\ retry.promise = [state |-> "resolved",
                        value |-> [isOk |-> FALSE, call |-> 3]]
    /\ retry.timer = 0
====
